---- MODULE Spec2Model ----
(***************************************************************************)
(* FEA-MCP: the LUSAS and ETABS adapters (src/src/Lusas.py,                *)
(* src/src/Etabs.py) as a state machine.                                   *)
(*                                                                         *)
(* The external modelling application is the environment: it may exit, be  *)
(* launched again and open or close its model between any two steps of the *)
(* program, and any call made on its automation surface may raise.  The    *)
(* calls of one step that raise on a live handle are drawn from an oracle; *)
(* a call made on a handle of an instance that is not running any more     *)
(* always raises.                                                          *)
(***************************************************************************)
EXTENDS Integers, Sequences, FiniteSets, TLC

VARIABLES
    feaName,    \* config.feaName: the backend the adapter object belongs to
    feaSoftware, \* server.feaSoftware: "object" (an adapter object), "None",
                \* or "unbound" when the module never assigned it
    modeller,   \* Lusas.modeller: 0 is None, k > 0 a handle to instance k
    SapModel,   \* Etabs.SapModel: 0 is None, k > 0 a handle to instance k
    app,        \* the external application: [inst, db, launches]
    pc,         \* position of the operation in progress ("idle": none,
                \* "done": it has returned or raised and its caller looks at it)
    op,         \* the transport-facing operation in progress, or the last one
    arg,        \* its createModel argument (set_modeller) or FALSE
    pre,        \* handle and application at the start of that operation
    objects,    \* create_objects_by_coordinates: its request list
    idx,        \* create_objects_by_coordinates: the loop variable i
    results,    \* create_objects_by_coordinates: the list results
    progress,   \* the notifications the progress sink received in this call
    log,        \* the backend calls made in this call, in order
    ret         \* what the operation returned or raised

vars == <<feaName, feaSoftware, modeller, SapModel, app, pc, op, arg, pre, objects, idx,
          results, progress, log, ret>>

----------------------------------------------------------------------------
(* Bounds of the model *)

\* longest request list handed to create_objects_by_coordinates
MaxObjects == 2
\* number of times the application is launched in one behaviour
MaxInst == 2
\* length of the longer coordinate lists of a request
MaxCoords == 3
\* backend calls of one step that raise on a live handle
MaxFaults == 1

----------------------------------------------------------------------------
(* Strings.  A type name is a sequence of characters so that str.lower()   *)
(* is computed, character by character.                                    *)

UpperChars == <<"A","B","C","D","E","F","G","H","I","J","K","L","M",
                "N","O","P","Q","R","S","T","U","V","W","X","Y","Z">>
LowerChars == <<"a","b","c","d","e","f","g","h","i","j","k","l","m",
                "n","o","p","q","r","s","t","u","v","w","x","y","z">>

LowerChar(c) ==
    IF \E k \in DOMAIN UpperChars : UpperChars[k] = c
    THEN LowerChars[CHOOSE k \in DOMAIN UpperChars : UpperChars[k] = c]
    ELSE c

\* A comparison of types that keeps the case of the letters
unchanged_case(s) == s

\* str.lower()
lower(s) == [k \in DOMAIN s |-> LowerChar(s[k])]

S_point == <<"p","o","i","n","t">>
S_Point == <<"P","o","i","n","t">>
S_line == <<"l","i","n","e">>
S_straight_line == <<"s","t","r","a","i","g","h","t"," ","l","i","n","e">>
S_arc == <<"a","r","c">>
S_spline == <<"s","p","l","i","n","e">>
S_surface == <<"s","u","r","f","a","c","e">>
S_Volume == <<"V","o","l","u","m","e">>

----------------------------------------------------------------------------
(* Returned strings.  A string is kept as its text up to the first         *)
(* interpolated value, split after a leading "Error", with the values      *)
(* interpolated into it: otype (a type name), args (numbers) and exc (the  *)
(* str() of an exception).                                                 *)

Msg(p, t, ty, a, e) == [pre |-> p, text |-> t, otype |-> ty, args |-> a, exc |-> e]

NoMsg == Msg("", "", <<>>, <<>>, "")

CannotConnectLusas ==
    Msg("Error", ": Cannot connect on LUSAS version {versionString}.", <<>>, <<>>, "")
CannotConnectEtabs ==
    Msg("Error", ": Cannot connect on ETABS.", <<>>, <<>>, "")
UnsupportedType(ty) ==
    Msg("Error", ": Unsupported type '{obj_type}'.", ty, <<>>, "")
ErrorProcessing(ty, e) ==
    Msg("Error", " processing {obj_type}: {str(e)}", ty, <<>>, e)
ErrorCreationObjects(e) ==
    Msg("Error", " creation objects: {str(e)}", <<>>, <<>>, e)

\* What an operation hands back: a string, a list, a boolean or an exception.
RetNone == [kind |-> "none", b |-> FALSE, msg |-> NoMsg, list |-> <<>>, exc |-> ""]
RetStr(s) == [RetNone EXCEPT !.kind = "str", !.msg = s]
RetList(l) == [RetNone EXCEPT !.kind = "list", !.list = l]
RetBool(v) == [RetNone EXCEPT !.kind = "bool", !.b = v]
RetRaise(e) == [RetNone EXCEPT !.kind = "raise", !.exc = e]

----------------------------------------------------------------------------
(* The machine an operation runs on: the adapter's handle, the application *)
(* and the calls made so far.  Operators take a machine and give back the  *)
(* machine after the code ran, with what the code returned.                *)

Machine(f, item) ==
    [modeller |-> modeller, SapModel |-> SapModel, app |-> app,
     log |-> <<>>, faults |-> f, k |-> 0, item |-> item]

\* The oracle of one step: the positions, among the backend calls of the
\* step, of the calls that raise although their handle is live.
RECURSIVE Subsets(_, _)
Subsets(n, c) ==
    IF c = 0 THEN {{}}
    ELSE {f \cup g : f \in Subsets(n, c - 1), g \in {{}} \cup {{i} : i \in 1..n}}

Oracles(n) == Subsets(n, MaxFaults)

\* A handle is live when the instance it was taken from is the running one.
Live(m, h) == h # 0 /\ h = m.app.inst

\* The oracle's word on the next call of the step.
Fault(m) == (m.k + 1) \in m.faults

Logged(m, name, h, a, ok) ==
    [m EXCEPT !.log = Append(@, [layer |-> "backend", call |-> name, h |-> h,
                                 item |-> m.item, args |-> a, ok |-> ok]),
              !.k = @ + 1]

\* One call on the automation surface through handle h.
Call(m, name, h, a) ==
    LET ok == Live(m, h) /\ ~Fault(m)
    IN  [m |-> Logged(m, name, h, a, ok), ok |-> ok]

----------------------------------------------------------------------------
(* Sequencing: Then(v, F) is F applied to the value of v, v being          *)
(* evaluated once, as a statement is executed once.                        *)

Only(S) == CHOOSE v \in S : TRUE
Then(v, F(_)) == Only({F(b) : b \in {v}})

\* A backend query: the call and, when it returns, what it returned, kept in
\* the log after the call.  What the application holds is the environment's
\* choice.
Query(m, name, h, reply) ==
    Then(Call(m, name, h, <<>>), LAMBDA c :
    IF ~c.ok THEN c
    ELSE [m |-> [c.m EXCEPT !.log = Append(@,
                    [layer |-> "reply", call |-> name, h |-> h,
                     item |-> c.m.item, args |-> reply, ok |-> TRUE])],
          ok |-> TRUE])

\* What a connection check answered (True, False or an exception), kept in
\* the log after the calls it made.
Answered(r) ==
    [m |-> [r.m EXCEPT !.log = Append(@,
                [layer |-> "check",
                 call |-> IF r.ret.kind = "raise" THEN "raise" ELSE "return",
                 h |-> 0, item |-> r.m.item, args |-> <<>>, ok |-> r.ret.b])],
     ret |-> r.ret]

----------------------------------------------------------------------------
(* Lusas.set_modeller *)

\* existsDatabase() and, with no database and createModel, newProject():
\* the two statements of lines 38-39 and of lines 56-57.
lusas_ensure_database(m, createModel) ==
    Then(Call(m, "existsDatabase", m.modeller, <<>>), LAMBDA e :
    IF ~e.ok THEN [m |-> e.m, ok |-> FALSE]
    ELSE IF ~e.m.app.db /\ createModel
    THEN Then(Call(e.m, "newProject", e.m.modeller, <<>>), LAMBDA p :
         IF p.ok THEN [m |-> [p.m EXCEPT !.app.db = TRUE], ok |-> TRUE]
         ELSE [m |-> p.m, ok |-> FALSE])
    ELSE [m |-> e.m, ok |-> TRUE])

\* win32client.GetActiveObject("Lusas.Modeller." + versionString)
lusas_GetActiveObject(m) ==
    LET ok == m.app.inst # 0 /\ ~Fault(m)
        l == Logged(m, "GetActiveObject", 0, <<>>, ok)
    IN  [m |-> IF ok THEN [l EXCEPT !.modeller = m.app.inst] ELSE l, ok |-> ok]

\* lines 45-58: attach to a running instance
lusas_attach(m, createModel) ==
    Then(lusas_GetActiveObject(m), LAMBDA a :
    IF ~a.ok THEN [m |-> a.m, ret |-> RetBool(FALSE)]
    ELSE Then(lusas_ensure_database(a.m, createModel), LAMBDA d :
         IF d.ok THEN [m |-> d.m, ret |-> RetBool(TRUE)]
         ELSE [m |-> d.m, ret |-> RetRaise("com_error")]))

\* lines 36-43 without line 43: the handle is not given up
lusas_probe_keeps_handle(m, createModel) ==
    Then(lusas_ensure_database(m, createModel), LAMBDA d :
    IF d.ok THEN [m |-> d.m, ret |-> RetBool(TRUE)]
    ELSE Then(lusas_GetActiveObject(d.m), LAMBDA a :
         IF ~a.ok THEN [m |-> a.m, ret |-> RetBool(FALSE)]
         ELSE Then(lusas_ensure_database(a.m, createModel), LAMBDA e :
              IF e.ok THEN [m |-> e.m, ret |-> RetBool(TRUE)]
              ELSE [m |-> e.m, ret |-> RetRaise("com_error")])))

\* lines 36-43, then the attachment
lusas_probe(m, createModel) ==
    Then(lusas_ensure_database(m, createModel), LAMBDA d :
    IF d.ok THEN [m |-> d.m, ret |-> RetBool(TRUE)]
    ELSE lusas_attach([d.m EXCEPT !.modeller = 0], createModel))

lusas_set_modeller(m, createModel) ==
    Then(IF m.modeller # 0 THEN lusas_probe(m, createModel)
         ELSE lusas_attach(m, createModel), Answered)

----------------------------------------------------------------------------
(* Etabs.set_modeller *)

\* A call that is not made through a handle of the application (the COM
\* helper): it raises when the oracle says so.
Sys(m, name) ==
    LET ok == ~Fault(m)
    IN  [m |-> Logged(m, name, 0, <<>>, ok), ok |-> ok]

\* The application being launched by its user between two calls of one
\* step, when the oracle says so: the only way the second GetObject of
\* line 60 finds an instance the first one did not find.
Launched(m) ==
    IF Fault(m) /\ m.app.inst = 0 /\ m.app.launches < MaxInst
    THEN [m EXCEPT !.k = @ + 1, !.app.inst = m.app.launches + 1,
                   !.app.launches = @ + 1]
    ELSE [m EXCEPT !.k = @ + 1]

\* lines 62-64: InitializeNewModel(6) and File.NewBlank() on EtabsObject
etabs_new_blank(m, h) ==
    Then(Call(m, "InitializeNewModel", h, <<6>>), LAMBDA i :
    IF ~i.ok THEN [m |-> i.m, ok |-> FALSE]
    ELSE Then(Call(i.m, "NewBlank", h, <<>>), LAMBDA b :
         IF ~b.ok THEN [m |-> b.m, ok |-> FALSE]
         ELSE [m |-> [b.m EXCEPT !.app.db = TRUE], ok |-> TRUE]))

\* lines 57-64: no instance was found; EtabsObject is what the second
\* GetObject gave (None when no instance runs, and ApplicationStart on
\* None raises)
etabs_start(m, createModel) ==
    Then(Sys(Launched(m), "GetObject"), LAMBDA g :
    IF ~g.ok THEN [m |-> g.m, ok |-> FALSE]
    ELSE IF g.m.app.inst = 0 THEN [m |-> g.m, ok |-> FALSE]
    ELSE Then(Call(g.m, "ApplicationStart", g.m.app.inst, <<>>), LAMBDA s :
         IF ~s.ok THEN [m |-> s.m, ok |-> FALSE]
         ELSE IF createModel THEN etabs_new_blank(s.m, s.m.app.inst)
         ELSE [m |-> s.m, ok |-> TRUE]))

\* lines 66-76: the version number is read for the log inside the try
\* block, EtabsObject.SapModel after it
etabs_take(m) ==
    Then(Call(m, "GetOAPIVersionNumber", m.app.inst, <<>>), LAMBDA v :
    IF ~v.ok THEN [m |-> v.m, ret |-> RetBool(FALSE)]
    ELSE Then(Call(v.m, "SapModel", v.m.app.inst, <<>>), LAMBDA p :
         IF ~p.ok THEN [m |-> p.m, ret |-> RetRaise("com_error")]
         ELSE [m |-> [p.m EXCEPT !.SapModel = p.m.app.inst],
               ret |-> RetBool(TRUE)]))

\* lines 49-76: attach to a running instance
etabs_attach(m, createModel) ==
    Then(Sys(m, "CreateObject"), LAMBDA c :
    IF ~c.ok THEN [m |-> c.m, ret |-> RetBool(FALSE)]
    ELSE Then(Sys(c.m, "GetObject"), LAMBDA g :
         IF ~g.ok THEN [m |-> g.m, ret |-> RetBool(FALSE)]
         ELSE IF g.m.app.inst # 0 THEN etabs_take(g.m)
         ELSE Then(etabs_start(g.m, createModel), LAMBDA s :
              IF ~s.ok THEN [m |-> s.m, ret |-> RetBool(FALSE)]
              ELSE etabs_take(s.m))))

\* lines 39-47: "if False and createModel" makes no call, so nothing in the
\* try block raises and a held handle is answered True as it is.
etabs_set_modeller(m, createModel) ==
    Then(IF m.SapModel # 0 THEN [m |-> m, ret |-> RetBool(TRUE)]
         ELSE etabs_attach(m, createModel), Answered)

----------------------------------------------------------------------------
(* Requests (GeomObject) *)

\* The i-th coordinate of each list differs from every other coordinate of
\* the request, so that a swapped or dropped coordinate shows.
CoordList(base, n) == [k \in 1..n |-> base + k]

GeomObject(ty, nx, ny, nz) ==
    [type |-> ty, xs |-> CoordList(10, nx), ys |-> CoordList(20, ny),
     zs |-> CoordList(30, nz)]

Types == {S_Point, S_line, S_straight_line, S_arc, S_surface, S_Volume}

\* Every type with coordinate lists long enough for it, a line with one
\* coordinate only, and a point whose lists differ in length.
Requests == {GeomObject(ty, MaxCoords, MaxCoords, MaxCoords) : ty \in Types}
            \cup {GeomObject(ty, 1, 1, 1) : ty \in {S_line, S_straight_line}}
            \cup {GeomObject(S_Point, 1, 2, 1)}

\* Python's seq[k], k counted from 0, is defined when k < len(seq).
HasIndex(obj, k) == Len(obj.xs) > k /\ Len(obj.ys) > k /\ Len(obj.zs) > k

\* obj.xs[k], obj.ys[k], obj.zs[k]
Triple(obj, k) == <<obj.xs[k + 1], obj.ys[k + 1], obj.zs[k + 1]>>

\* x[i], y[i], z[i] for i in range(len(x))
Zipped(x, y, z, k) ==
    IF k = 0 THEN <<>> ELSE [j \in 1..(3 * k) |->
        IF j % 3 = 1 THEN x[(j + 2) \div 3]
        ELSE IF j % 3 = 2 THEN y[(j + 1) \div 3]
        ELSE z[j \div 3]]

----------------------------------------------------------------------------
(* The Lusas creation operations *)

\* The entry of an adapter operation, kept in the log with the backend calls.
Enter(m, name, a) ==
    [m EXCEPT !.log = Append(@, [layer |-> "adapter", call |-> name, h |-> 0,
                                 item |-> m.item, args |-> a, ok |-> TRUE])]

Created(text) == Msg("", text, <<>>, <<>>, "")
Failed(text) == Msg("Error", text, <<>>, <<>>, "")

\* The shape the creation operations of Lusas.py share: the connection
\* check, then one try block that fills a geometryData object, makes the
\* creation call and reads the id of the new object; any exception of the
\* try block gives the operation's error string.  indexed is FALSE when
\* filling the geometryData object indexes a list past its end.
lusas_create(m, name, call, a, indexed, okText, failText) ==
    Then(lusas_set_modeller(Enter(m, name, a), TRUE), LAMBDA s :
    IF s.ret.kind = "raise" THEN s
    ELSE IF ~s.ret.b THEN [m |-> s.m, ret |-> RetStr(CannotConnectLusas)]
    ELSE Then(Call(s.m, "geometryData", s.m.modeller, <<>>), LAMBDA g :
         IF ~g.ok THEN [m |-> g.m, ret |-> RetStr(Failed(failText))]
         ELSE IF ~indexed THEN [m |-> g.m, ret |-> RetStr(Failed(failText))]
         ELSE Then(Call(g.m, call, g.m.modeller, a), LAMBDA c :
              IF ~c.ok THEN [m |-> c.m, ret |-> RetStr(Failed(failText))]
              ELSE [m |-> c.m, ret |-> RetStr(Created(okText))])))

lusas_create_point(m, p) ==
    lusas_create(m, "create_point", "createPoint", p, TRUE,
                 "Point created successfully with ID {id}.",
                 ": Failed to create point.")

lusas_create_line_by_coordinates(m, p1, p2) ==
    lusas_create(m, "create_line_by_coordinates", "createLine", p1 \o p2, TRUE,
                 "Line created successfully with ID {id}.",
                 ": Failed to create line by coordinates.")

lusas_create_arc_by_coordinates(m, p1, p2, p3) ==
    lusas_create(m, "create_arc_by_coordinates", "createLine",
                 p1 \o p2 \o p3, TRUE,
                 "Line created successfully with ID {id}.",
                 ": Failed to create arc line by coordinates.")

\* for i in range(len(x)): addCoords(x[i], y[i], z[i])
lusas_create_spline_by_coordinates(m, x, y, z, closeEnds) ==
    LET fits == Len(y) >= Len(x) /\ Len(z) >= Len(x)
    IN  lusas_create(m, "create_spline_by_coordinates", "createLine",
                     IF fits THEN Zipped(x, y, z, Len(x)) ELSE <<>>, fits,
                     "Line created successfully with ID {id}.",
                     ": Failed to create spline by points.")

lusas_create_surface_by_coordinates(m, x, y, z) ==
    LET fits == Len(y) >= Len(x) /\ Len(z) >= Len(x)
    IN  lusas_create(m, "create_surface_by_coordinates", "createSurface",
                     IF fits THEN Zipped(x, y, z, Len(x)) ELSE <<>>, fits,
                     "Surface created successfully with ID {id}.",
                     ": Failed to create surface by coordinates.")

\* Lusas.get_units
lusas_get_units(m) ==
    Then(lusas_set_modeller(Enter(m, "get_units", <<>>), TRUE), LAMBDA s :
    IF s.ret.kind = "raise" THEN s
    ELSE IF ~s.ret.b THEN [m |-> s.m, ret |-> RetStr(CannotConnectLusas)]
    ELSE Then(Call(s.m, "getModelUnits", s.m.modeller, <<>>), LAMBDA u :
         IF ~u.ok
         THEN [m |-> u.m, ret |-> RetStr(Failed(": Failed to get the model units."))]
         ELSE [m |-> u.m, ret |-> RetStr(Msg("",
                 "Units of force, length, mass, time and temperature are set to {name}",
                 <<>>, <<>>, ""))]))

----------------------------------------------------------------------------
(* Lusas.create_objects_by_coordinates *)

IndexError(m) == [m |-> m, ret |-> RetRaise("list index out of range")]

\* lines 422-437: the call the type of the request selects
lusas_select(m, obj, obj_type) ==
    IF obj_type = S_point
    THEN IF HasIndex(obj, 0) THEN lusas_create_point(m, Triple(obj, 0))
         ELSE IndexError(m)
    ELSE IF obj_type = S_straight_line
    THEN IF HasIndex(obj, 1)
         THEN lusas_create_line_by_coordinates(m, Triple(obj, 0), Triple(obj, 1))
         ELSE IndexError(m)
    ELSE IF obj_type = S_arc
    THEN IF HasIndex(obj, 2)
         THEN lusas_create_arc_by_coordinates(m, Triple(obj, 0), Triple(obj, 1),
                                              Triple(obj, 2))
         ELSE IndexError(m)
    ELSE IF obj_type = S_spline
    THEN lusas_create_spline_by_coordinates(m, obj.xs, obj.ys, obj.zs, FALSE)
    ELSE IF obj_type = S_surface
    THEN lusas_create_surface_by_coordinates(m, obj.xs, obj.ys, obj.zs)
    ELSE [m |-> m, ret |-> RetStr(UnsupportedType(obj_type))]

\* lines 421-439 with an except clause that appends the adapter's answer,
\* which there is none of after an exception
lusas_dispatch_drops_exception(m, obj) ==
    Then(lower(obj.type), LAMBDA obj_type :
    Then(lusas_select(m, obj, obj_type), LAMBDA r :
    [m |-> r.m, msg |-> r.ret.msg]))

\* lines 421-439: the inner try block of one request, giving the string
\* appended to results
lusas_dispatch(m, obj) ==
    Then(lower(obj.type), LAMBDA obj_type :
    Then(lusas_select(m, obj, obj_type), LAMBDA r :
    IF r.ret.kind = "raise"
    THEN [m |-> r.m, msg |-> ErrorProcessing(obj_type, r.ret.exc)]
    ELSE [m |-> r.m, msg |-> r.ret.msg]))

\* lines 410-415: the connection check and beginCommandBatch
lusas_batch_begin(m) ==
    Then(lusas_set_modeller(Enter(m, "create_objects_by_coordinates", <<>>), TRUE),
         LAMBDA s :
    IF s.ret.kind = "raise" THEN [m |-> s.m, ret |-> s.ret, pc |-> "done"]
    ELSE IF ~s.ret.b
    THEN [m |-> s.m, ret |-> RetStr(CannotConnectLusas), pc |-> "done"]
    ELSE Then(Call(s.m, "beginCommandBatch", s.m.modeller, <<>>), LAMBDA b :
         IF ~b.ok
         THEN [m |-> b.m, ret |-> RetStr(ErrorCreationObjects("com_error")),
               pc |-> "finally"]
         ELSE [m |-> b.m, ret |-> RetNone, pc |-> "loop"]))

\* lines 442-446: the finally block, then the return statement that was
\* pending (line 441 or line 446).  self.modeller is None when a connection
\* check of the loop discarded the handle and could not attach again.
lusas_batch_end(m, pending, res) ==
    IF m.modeller = 0
    THEN [m |-> m, ret |-> RetRaise("'NoneType' object has no attribute 'db'")]
    ELSE Then(Call(m, "closeCommandBatch", m.modeller, <<>>), LAMBDA c :
         IF ~c.ok THEN [m |-> c.m, ret |-> RetRaise("com_error")]
         ELSE Then(Call(c.m, "scaleToFit", c.m.modeller, <<>>), LAMBDA v :
              IF ~v.ok THEN [m |-> v.m, ret |-> RetRaise("com_error")]
              ELSE IF pending.kind = "str" THEN [m |-> v.m, ret |-> pending]
              ELSE [m |-> v.m, ret |-> RetList(res)]))

----------------------------------------------------------------------------
(* The Etabs operations.  Their backend calls stand outside any try block: *)
(* a call that raises ends the operation with the exception, and a call    *)
(* that returns gives a return code, nonzero when the oracle says so.      *)

\* The return code of a call that returned, kept in the log: ok is ret == 0.
Code(m, name) ==
    LET ok == ~Fault(m)
    IN  [m |-> [m EXCEPT !.log = Append(@, [layer |-> "code", call |-> name,
                                            h |-> 0, item |-> m.item,
                                            args |-> <<>>, ok |-> ok]),
                         !.k = @ + 1],
         ok |-> ok]

\* f"Error: Cannot connect on ETABS version {self.versionString}." and
\* f"Error: Cannot connect on LUSAS version {self.versionString}.": the
\* class Etabs sets no attribute versionString.
etabs_versionString(m) ==
    [m |-> m, ret |-> RetRaise("'Etabs' object has no attribute 'versionString'")]

\* The shape create_joint, create_frame and create_area share: the
\* connection check, the creation call and its return code, RefreshView.
etabs_create(m, name, call, a, okText, failText) ==
    Then(etabs_set_modeller(Enter(m, name, a), TRUE), LAMBDA s :
    IF s.ret.kind = "raise" THEN s
    ELSE IF ~s.ret.b THEN [m |-> s.m, ret |-> RetStr(CannotConnectEtabs)]
    ELSE Then(Call(s.m, call, s.m.SapModel, a), LAMBDA c :
         IF ~c.ok THEN [m |-> c.m, ret |-> RetRaise("com_error")]
         ELSE Then(Code(c.m, call), LAMBDA r :
              IF ~r.ok
              THEN [m |-> r.m, ret |-> RetStr(Msg("Error", failText, <<>>, a, ""))]
              ELSE Then(Call(r.m, "RefreshView", r.m.SapModel, <<>>), LAMBDA v :
                   IF ~v.ok THEN [m |-> v.m, ret |-> RetRaise("com_error")]
                   ELSE [m |-> v.m, ret |-> RetStr(Created(okText))]))))

etabs_create_joint(m, p) ==
    etabs_create(m, "create_joint", "AddCartesian", p,
                 "Joint created successfully with ID {pName}.",
                 " adding joint ({x}, {y}, {z}) to the model.")

etabs_create_frame(m, pi, pj) ==
    etabs_create(m, "create_frame", "AddByCoord", pi \o pj,
                 "Frame created successfully with ID {fName}.",
                 " adding line/frame ({xi}, {yi}, {zi}) - ({xj}, {yj}, {zj}) to the model.")

etabs_create_area(m, x, y, z) ==
    etabs_create(m, "create_area", "AddByCoord", <<Len(x)>> \o x \o y \o z,
                 "Area created successfully with ID {aName}.",
                 " adding surface/area to the model.")

\* Etabs.get_units; MyUnits is what GetPresentUnits returns
etabs_get_units(m, MyUnits) ==
    Then(etabs_set_modeller(Enter(m, "get_units", <<>>), TRUE), LAMBDA s :
    IF s.ret.kind = "raise" THEN s
    ELSE IF ~s.ret.b THEN [m |-> s.m, ret |-> RetStr(CannotConnectEtabs)]
    ELSE Then(Query(s.m, "GetPresentUnits", s.m.SapModel, <<MyUnits>>), LAMBDA u :
         IF ~u.ok THEN [m |-> u.m, ret |-> RetRaise("com_error")]
         ELSE IF MyUnits < 1 \/ MyUnits > 16
         THEN [m |-> u.m, ret |-> RetStr(Msg("", "Unknown units", <<>>, <<>>, ""))]
         ELSE [m |-> u.m, ret |-> RetStr(Msg("",
                 "Units of force, length and temperature are set to {presetUnits[MyUnits-1]}",
                 <<>>, <<MyUnits>>, ""))]))

\* Etabs.save
etabs_save(m) ==
    Then(etabs_set_modeller(Enter(m, "save", <<>>), TRUE), LAMBDA s :
    IF s.ret.kind = "raise" THEN s
    ELSE IF ~s.ret.b THEN [m |-> s.m, ret |-> RetStr(CannotConnectEtabs)]
    ELSE Then(Call(s.m, "Save", s.m.SapModel, <<>>), LAMBDA f :
         IF ~f.ok THEN [m |-> f.m, ret |-> RetRaise("com_error")]
         ELSE Then(Code(f.m, "Save"), LAMBDA r :
              IF ~r.ok
              THEN [m |-> r.m,
                    ret |-> RetStr(Msg("Error", " saving the model", <<>>, <<>>, ""))]
              ELSE [m |-> r.m,
                    ret |-> RetStr(Msg("", "Model saved successfully.", <<>>, <<>>, ""))])))

\* Etabs.get_points; pts is what GetAllPoints returns, a sequence of
\* [name, x, y, z]
etabs_get_points(m, pts) ==
    Then(etabs_set_modeller(Enter(m, "get_points", <<>>), TRUE), LAMBDA s :
    IF s.ret.kind = "raise" THEN s
    ELSE IF ~s.ret.b THEN etabs_versionString(s.m)
    ELSE Then(Query(s.m, "GetAllPoints", s.m.SapModel, pts), LAMBDA g :
         IF ~g.ok
         THEN [m |-> g.m, ret |-> RetStr(Failed(": Failed getting point."))]
         ELSE [m |-> g.m, ret |-> RetList([i \in DOMAIN pts |->
                 [type |-> S_point, xs |-> <<pts[i].x>>, ys |-> <<pts[i].y>>,
                  zs |-> <<pts[i].z>>, id |-> pts[i].name]])]))

----------------------------------------------------------------------------
(* Etabs.create_objects_by_coordinates *)

\* lines 221-230 with the last elif turned into the else branch
etabs_select_else_area(m, obj, obj_type) ==
    IF obj_type = S_point
    THEN IF HasIndex(obj, 0) THEN etabs_create_joint(m, Triple(obj, 0))
         ELSE IndexError(m)
    ELSE IF obj_type = S_line
    THEN IF HasIndex(obj, 1)
         THEN etabs_create_frame(m, Triple(obj, 0), Triple(obj, 1))
         ELSE IndexError(m)
    ELSE etabs_create_area(m, obj.xs, obj.ys, obj.zs)

\* lines 221-230: the call the type of the request selects
etabs_select(m, obj, obj_type) ==
    IF obj_type = S_point
    THEN IF HasIndex(obj, 0) THEN etabs_create_joint(m, Triple(obj, 0))
         ELSE IndexError(m)
    ELSE IF obj_type = S_line
    THEN IF HasIndex(obj, 1)
         THEN etabs_create_frame(m, Triple(obj, 0), Triple(obj, 1))
         ELSE IndexError(m)
    ELSE IF obj_type = S_surface
    THEN etabs_create_area(m, obj.xs, obj.ys, obj.zs)
    ELSE [m |-> m, ret |-> RetStr(UnsupportedType(obj_type))]

\* lines 220-232: the inner try block of one request
etabs_dispatch(m, obj) ==
    Then(lower(obj.type), LAMBDA obj_type :
    Then(etabs_select(m, obj, obj_type), LAMBDA r :
    IF r.ret.kind = "raise"
    THEN [m |-> r.m, msg |-> ErrorProcessing(obj_type, r.ret.exc)]
    ELSE [m |-> r.m, msg |-> r.ret.msg]))

\* lines 210-213: the connection check
etabs_batch_begin(m) ==
    Then(etabs_set_modeller(Enter(m, "create_objects_by_coordinates", <<>>), TRUE),
         LAMBDA s :
    IF s.ret.kind = "raise" THEN [m |-> s.m, ret |-> s.ret, pc |-> "done"]
    ELSE IF ~s.ret.b
    THEN Then(etabs_versionString(s.m), LAMBDA v :
              [m |-> v.m, ret |-> v.ret, pc |-> "done"])
    ELSE [m |-> s.m, ret |-> RetNone, pc |-> "loop"])

----------------------------------------------------------------------------
(* The environment *)

AppExit ==
    /\ pc # "done"
    /\ app.inst # 0
    /\ app' = [app EXCEPT !.inst = 0, !.db = FALSE]
    /\ UNCHANGED <<feaName, feaSoftware, modeller, SapModel, pc, op, arg, pre, objects, idx,
                   results, progress, log, ret>>

AppLaunch ==
    /\ pc = "idle"
    /\ app.inst = 0
    /\ app.launches < MaxInst
    /\ app' = [app EXCEPT !.inst = app.launches + 1, !.launches = @ + 1]
    /\ UNCHANGED <<feaName, feaSoftware, modeller, SapModel, pc, op, arg, pre, objects, idx,
                   results, progress, log, ret>>

AppModel ==
    /\ pc = "idle"
    /\ app.inst # 0
    /\ app' = [app EXCEPT !.db = ~@]
    /\ UNCHANGED <<feaName, feaSoftware, modeller, SapModel, pc, op, arg, pre, objects, idx,
                   results, progress, log, ret>>

----------------------------------------------------------------------------
(* Operations *)

\* The start of a transport-facing call.
Begin(name, a) ==
    /\ pc = "idle"
    /\ op' = name
    /\ arg' = a
    /\ pre' = [modeller |-> modeller, SapModel |-> SapModel, app |-> app]

\* A step of an operation: the machine it starts on (the calls of the
\* operation so far are kept) and the state it leaves.
Resume(f, item) == [Machine(f, item) EXCEPT !.log = log]

Leave(r) ==
    \E v \in {r} :
        /\ modeller' = v.m.modeller
        /\ SapModel' = v.m.SapModel
        /\ app' = v.m.app
        /\ log' = v.m.log
        /\ ret' = v.ret
        /\ UNCHANGED <<feaName, feaSoftware>>

NoBatch ==
    /\ objects' = <<>>
    /\ idx' = 0
    /\ results' = <<>>
    /\ progress' = <<>>

\* The end of an operation that ran in one step.
Finish(r) ==
    /\ Leave(r)
    /\ pc' = "done"
    /\ NoBatch

\* The caller has taken the result: the next operation starts on the handle
\* and the application as they are, whatever the last operation was.
Return ==
    /\ pc = "done"
    /\ pc' = "idle"
    /\ op' = ""
    /\ arg' = FALSE
    /\ pre' = [modeller |-> modeller, SapModel |-> SapModel, app |-> app]
    /\ log' = <<>>
    /\ ret' = RetNone
    /\ NoBatch
    /\ UNCHANGED <<feaName, feaSoftware, modeller, SapModel, app>>

\* The inputs of the operations
Points == {<<1, 2, 3>>, <<3, 2, 1>>}
Lists == {CoordList(b, n) : b \in {10}, n \in {1, MaxCoords}}
RequestLists == UNION {[1..n -> Requests] : n \in 0..MaxObjects}

LusasSetModeller ==
    \E createModel \in BOOLEAN, o \in Oracles(5) :
        /\ feaName = "LUSAS"
        /\ Begin("set_modeller", createModel)
        /\ Finish(lusas_set_modeller(Machine(o, 0), createModel))

EtabsSetModeller ==
    \E createModel \in BOOLEAN, o \in Oracles(9) :
        /\ feaName = "ETABS"
        /\ Begin("set_modeller", createModel)
        /\ Finish(etabs_set_modeller(Machine(o, 0), createModel))

LusasGetUnits ==
    \E o \in Oracles(6) :
        /\ feaName = "LUSAS"
        /\ Begin("get_units", FALSE)
        /\ Finish(lusas_get_units(Machine(o, 0)))

LusasCreatePoint ==
    \E p \in Points, o \in Oracles(7) :
        /\ feaName = "LUSAS"
        /\ Begin("create_point", FALSE)
        /\ Finish(lusas_create_point(Machine(o, 0), p))

LusasCreateLineByCoordinates ==
    \E p1 \in Points, p2 \in Points, o \in Oracles(7) :
        /\ feaName = "LUSAS"
        /\ Begin("create_line_by_coordinates", FALSE)
        /\ Finish(lusas_create_line_by_coordinates(Machine(o, 0), p1, p2))

LusasCreateArcByCoordinates ==
    \E p1 \in Points, p2 \in Points, p3 \in Points, o \in Oracles(7) :
        /\ feaName = "LUSAS"
        /\ Begin("create_arc_by_coordinates", FALSE)
        /\ Finish(lusas_create_arc_by_coordinates(Machine(o, 0), p1, p2, p3))

LusasCreateSplineByCoordinates ==
    \E x \in Lists, y \in Lists, z \in Lists, o \in Oracles(7) :
        /\ feaName = "LUSAS"
        /\ Begin("create_spline_by_coordinates", FALSE)
        /\ Finish(lusas_create_spline_by_coordinates(Machine(o, 0), x, y, z, FALSE))

LusasCreateSurfaceByCoordinates ==
    \E x \in Lists, y \in Lists, z \in Lists, o \in Oracles(7) :
        /\ feaName = "LUSAS"
        /\ Begin("create_surface_by_coordinates", FALSE)
        /\ Finish(lusas_create_surface_by_coordinates(Machine(o, 0), x, y, z))

LusasBatchBegin ==
    \E objs \in RequestLists, o \in Oracles(6) :
        /\ feaName = "LUSAS"
        /\ Begin("create_objects_by_coordinates", FALSE)
        /\ \E r \in {lusas_batch_begin(Machine(o, 0))} :
               /\ Leave(r)
               /\ pc' = r.pc
        /\ objects' = objs
        /\ idx' = 0
        /\ results' = <<>>
        /\ progress' = <<>>

\* line 418: await ctx.report_progress(i, len(objects)); the notification is
\* kept in the log too, between the calls made before and after it.
Notify_unsent(m, i, n) == m

Notify(m, i, n) ==
    [m EXCEPT !.log = Append(@, [layer |-> "progress", call |-> "report_progress",
                                 h |-> 0, item |-> 0, args |-> <<i, n>>,
                                 ok |-> TRUE])]

\* lines 416-439: one turn of the loop
LusasBatchItem ==
    \E o \in Oracles(7) :
        /\ feaName = "LUSAS"
        /\ pc = "loop"
        /\ idx < Len(objects)
        /\ progress' = Append(progress, <<idx, Len(objects)>>)
        /\ \E d \in {lusas_dispatch(Notify(Resume(o, idx + 1), idx, Len(objects)),
                                    objects[idx + 1])} :
               /\ Leave([m |-> d.m, ret |-> ret])
               /\ results' = Append(results, d.msg)
        /\ idx' = idx + 1
        /\ UNCHANGED <<pc, op, arg, pre, objects>>

\* the loop is over, or beginCommandBatch raised
LusasBatchEnd ==
    \E o \in Oracles(2) :
        /\ feaName = "LUSAS"
        /\ \/ pc = "loop" /\ idx = Len(objects)
           \/ pc = "finally"
        /\ Leave(lusas_batch_end(Resume(o, 0), ret, results))
        /\ pc' = "done"
        /\ UNCHANGED <<op, arg, pre, objects, idx, results, progress>>

EtabsGetUnits ==
    \E MyUnits \in {0, 6, 17}, o \in Oracles(10) :
        /\ feaName = "ETABS"
        /\ Begin("get_units", FALSE)
        /\ Finish(etabs_get_units(Machine(o, 0), MyUnits))

EtabsSave ==
    \E o \in Oracles(11) :
        /\ feaName = "ETABS"
        /\ Begin("save", FALSE)
        /\ Finish(etabs_save(Machine(o, 0)))

EtabsCreateJoint ==
    \E p \in Points, o \in Oracles(12) :
        /\ feaName = "ETABS"
        /\ Begin("create_joint", FALSE)
        /\ Finish(etabs_create_joint(Machine(o, 0), p))

EtabsCreateFrame ==
    \E p1 \in Points, p2 \in Points, o \in Oracles(12) :
        /\ feaName = "ETABS"
        /\ Begin("create_frame", FALSE)
        /\ Finish(etabs_create_frame(Machine(o, 0), p1, p2))

EtabsCreateArea ==
    \E x \in Lists, y \in Lists, z \in Lists, o \in Oracles(12) :
        /\ feaName = "ETABS"
        /\ Begin("create_area", FALSE)
        /\ Finish(etabs_create_area(Machine(o, 0), x, y, z))

EtabsGetPoints ==
    \E pts \in {<<>>, <<[name |-> 1, x |-> 1, y |-> 2, z |-> 3]>>},
       o \in Oracles(10) :
        /\ feaName = "ETABS"
        /\ Begin("get_points", FALSE)
        /\ Finish(etabs_get_points(Machine(o, 0), pts))

EtabsBatchBegin ==
    \E objs \in RequestLists, o \in Oracles(9) :
        /\ feaName = "ETABS"
        /\ Begin("create_objects_by_coordinates", FALSE)
        /\ \E r \in {etabs_batch_begin(Machine(o, 0))} :
               /\ Leave(r)
               /\ pc' = r.pc
        /\ objects' = objs
        /\ idx' = 0
        /\ results' = <<>>
        /\ progress' = <<>>

\* lines 215-232: one turn of the loop.  ctx.report_progress(i, len(objects))
\* is a coroutine function called without await in a function that is not
\* async: the coroutine object is dropped and the sink receives nothing.
EtabsBatchItem ==
    \E o \in Oracles(12) :
        /\ feaName = "ETABS"
        /\ pc = "loop"
        /\ idx < Len(objects)
        /\ \E d \in {etabs_dispatch(Resume(o, idx + 1), objects[idx + 1])} :
               /\ Leave([m |-> d.m, ret |-> ret])
               /\ results' = Append(results, d.msg)
        /\ idx' = idx + 1
        /\ UNCHANGED <<pc, op, arg, pre, objects, progress>>

\* line 235: return results
EtabsBatchEnd ==
    /\ feaName = "ETABS"
    /\ pc = "loop"
    /\ idx = Len(objects)
    /\ ret' = RetList(results)
    /\ pc' = "done"
    /\ UNCHANGED <<feaName, feaSoftware, modeller, SapModel, app, op, arg, pre, objects, idx,
                   results, progress, log>>

----------------------------------------------------------------------------
NoApp == [inst |-> 0, db |-> FALSE, launches |-> 0]

\* Lusas.__init__ and Etabs.__init__: the handle is None and
\* set_modeller(False) is called.
construct(name, m) ==
    IF name = "LUSAS" THEN lusas_set_modeller(m, FALSE)
    ELSE etabs_set_modeller(m, FALSE)

\* The state after the adapter object was constructed.
Init ==
    /\ feaName \in {"LUSAS", "ETABS"}
    /\ feaSoftware = "object"
    /\ \E running \in BOOLEAN, db \in BOOLEAN, o \in Oracles(9) :
        LET a == IF running THEN [NoApp EXCEPT !.inst = 1, !.launches = 1, !.db = db]
                 ELSE NoApp
            m == [modeller |-> 0, SapModel |-> 0, app |-> a, log |-> <<>>,
                  faults |-> o, k |-> 0, item |-> 0]
            r == construct(feaName, m)
        IN  /\ r.ret.kind = "bool"
            /\ modeller = r.m.modeller
            /\ SapModel = r.m.SapModel
            /\ app = r.m.app
            /\ log = r.m.log
            /\ ret = r.ret
            /\ pre = [modeller |-> 0, SapModel |-> 0, app |-> a]
    /\ pc = "done"
    /\ op = "__init__"
    /\ arg = FALSE
    /\ objects = <<>>
    /\ idx = 0
    /\ results = <<>>
    /\ progress = <<>>

Next ==
    \/ AppExit
    \/ AppLaunch
    \/ AppModel
    \/ Return
    \/ LusasSetModeller
    \/ EtabsSetModeller
    \/ LusasGetUnits
    \/ LusasCreatePoint
    \/ LusasCreateLineByCoordinates
    \/ LusasCreateArcByCoordinates
    \/ LusasCreateSplineByCoordinates
    \/ LusasCreateSurfaceByCoordinates
    \/ LusasBatchBegin
    \/ LusasBatchItem
    \/ LusasBatchEnd
    \/ EtabsGetUnits
    \/ EtabsSave
    \/ EtabsCreateJoint
    \/ EtabsCreateFrame
    \/ EtabsCreateArea
    \/ EtabsGetPoints
    \/ EtabsBatchBegin
    \/ EtabsBatchItem
    \/ EtabsBatchEnd

Spec == Init /\ [][Next]_vars

\* The connection check alone: set_modeller called on the adapter object
\* while the application comes and goes.
NextConnect ==
    \/ AppExit
    \/ AppLaunch
    \/ AppModel
    \/ Return
    \/ LusasSetModeller
    \/ EtabsSetModeller

SpecConnect == Init /\ [][NextConnect]_vars

----------------------------------------------------------------------------
(* The Lusas sweeps *)

\* Statements that each make one backend call, executed in order: the first
\* call that raises ends them.
RECURSIVE InOrder(_, _, _)
InOrder(m, names, i) ==
    IF i > Len(names) THEN [m |-> m, ok |-> TRUE]
    ELSE Then(Call(m, names[i], m.modeller, <<>>), LAMBDA c :
         IF ~c.ok THEN c ELSE InOrder(c.m, names, i + 1))

\* for id in pnts: myObj.add("point", id)
RECURSIVE lusas_add(_, _, _, _)
lusas_add(m, kind, ids, i) ==
    IF i > Len(ids) THEN [m |-> m, ok |-> TRUE]
    ELSE Then(Call(m, kind, m.modeller, <<ids[i]>>), LAMBDA c :
         IF ~c.ok THEN c ELSE lusas_add(c.m, kind, ids, i + 1))

\* line 665-666: types.index(hofType), the place of the kind among
\* ["Point", "Line", "Surface", "Volume"]; the kind is kept in the log as
\* this number.
types_index(hofType) ==
    CASE hofType = "Point" -> 0
      [] hofType = "Line" -> 1
      [] hofType = "Surface" -> 2
      [] hofType = "Volume" -> 3

\* Lusas.sweep_Ext: the temporary attribute is created, the geometry data
\* filled, the sweep made and then the attribute deleted, with no try block:
\* an exception of any statement leaves the method at that statement.
lusas_sweep_Ext(m, vector, hofType) ==
    Then(Call(m, "createTranslationTransAttr", m.modeller, vector), LAMBDA t :
    IF ~t.ok THEN t
    ELSE Then(Call(t.m, "setSweepType", t.m.modeller, <<>>), LAMBDA y :
    IF ~y.ok THEN y
    ELSE Then(Call(y.m, "setHofType", y.m.modeller, <<types_index(hofType)>>),
         LAMBDA f :
    IF ~f.ok THEN f
    ELSE Then(Call(f.m, "newGeometryData", f.m.modeller, <<>>), LAMBDA g :
    IF ~g.ok THEN g
    ELSE Then(Call(g.m, "setMaximumDimension", g.m.modeller,
                   <<types_index(hofType)>>), LAMBDA d :
    IF ~d.ok THEN d
    ELSE Then(InOrder(d.m, <<"setTransformation", "sweptArcType", "sweep">>, 1),
         LAMBDA w :
    IF ~w.ok THEN w
    ELSE Call(w.m, "deleteAttribute", w.m.modeller, <<>>)))))))

\* The shape sweep_points, sweep_lines and sweep_surfaces share: the
\* connection check, then one try block that fills an object set, calls
\* sweep_Ext and reads the ids of the objects the sweep made (one for each
\* object swept); any exception of the try block gives the error string.
lusas_sweep(m, name, kind, ids, vector, hofType, okText, failText) ==
    Then(lusas_set_modeller(Enter(m, name, ids), TRUE), LAMBDA s :
    IF s.ret.kind = "raise" THEN s
    ELSE IF ~s.ret.b THEN [m |-> s.m, ret |-> RetStr(CannotConnectLusas)]
    ELSE Then(Call(s.m, "newObjectSet", s.m.modeller, <<>>), LAMBDA n :
         IF ~n.ok THEN [m |-> n.m, ret |-> RetStr(Failed(failText))]
         ELSE Then(lusas_add(n.m, kind, ids, 1), LAMBDA a :
              IF ~a.ok THEN [m |-> a.m, ret |-> RetStr(Failed(failText))]
              ELSE Then(lusas_sweep_Ext(a.m, vector, hofType), LAMBDA x :
                   IF ~x.ok THEN [m |-> x.m, ret |-> RetStr(Failed(failText))]
                   ELSE Then(InOrder(x.m, <<"getObjects">> \o
                                          [i \in 1..Len(ids) |-> "getID"], 1),
                        LAMBDA g :
                        IF ~g.ok
                        THEN [m |-> g.m, ret |-> RetStr(Failed(failText))]
                        ELSE [m |-> g.m, ret |-> RetStr(Created(okText))])))))

lusas_sweep_points(m, pnts, vector) ==
    lusas_sweep(m, "sweep_points", "add(point)", pnts, vector, "Line",
                "Points swept successfully creating lines with IDs {ids}.",
                ": Failed to sweep points.")

\* line 490: the ids of the lines are added as points
lusas_sweep_lines(m, lines, vector) ==
    lusas_sweep(m, "sweep_lines", "add(point)", lines, vector, "Surface",
                "Lines swept successfully creating surfaces with IDs {ids}.",
                ": Failed to sweep lines.")

lusas_sweep_surfaces(m, surfs, vector) ==
    lusas_sweep(m, "sweep_surfaces", "add(surface)", surfs, vector, "Volume",
                "Surfaces swept successfully creating volumes with IDs {ids}.",
                ": Failed to sweep surfaces.")

\* The ids an operation is given
IdLists == {<<1>>, <<1, 2>>}

LusasSweepPoints ==
    \E pnts \in IdLists, vector \in Points, o \in Oracles(20) :
        /\ feaName = "LUSAS"
        /\ Begin("sweep_points", FALSE)
        /\ Finish(lusas_sweep_points(Machine(o, 0), pnts, vector))

LusasSweepLines ==
    \E lines \in IdLists, vector \in Points, o \in Oracles(20) :
        /\ feaName = "LUSAS"
        /\ Begin("sweep_lines", FALSE)
        /\ Finish(lusas_sweep_lines(Machine(o, 0), lines, vector))

LusasSweepSurfaces ==
    \E surfs \in IdLists, vector \in Points, o \in Oracles(20) :
        /\ feaName = "LUSAS"
        /\ Begin("sweep_surfaces", FALSE)
        /\ Finish(lusas_sweep_surfaces(Machine(o, 0), surfs, vector))

----------------------------------------------------------------------------
(* Lusas.create_arc_by_points and Lusas.create_volume *)

\* The coordinates of the point with id p
PointAt(p) == <<10 * p + 1, 10 * p + 2, 10 * p + 3>>

EndMiddleStart(p1, p2, p3) == <<p3, p2, p1>>

\* lines 208-210: the coordinates are added in the order p1, p2, p3
StartMiddleEnd(p1, p2, p3) == <<p1, p2, p3>>

\* lines 201-203: db().getObject("Point", p) for the three ids, from id
\* number i; held is the ids of the points the database holds.  For an id
\* it does not hold the call either raises or returns no object, the
\* backend's choice.
RECURSIVE lusas_getObject(_, _, _, _, _)
lusas_getObject(m, ps, i, held, raises) ==
    IF i > Len(ps) THEN [m |-> m, ok |-> TRUE]
    ELSE LET ok == /\ Live(m, m.modeller) /\ ~Fault(m)
                   /\ (ps[i] \in held \/ ~raises)
         IN  IF ~ok
             THEN [m |-> Logged(m, "getObject", m.modeller, <<ps[i]>>, FALSE),
                   ok |-> FALSE]
             ELSE lusas_getObject(Logged(m, "getObject", m.modeller, <<ps[i]>>,
                                         TRUE), ps, i + 1, held, raises)

\* geom_data.addCoords(p.getX(), p.getY(), p.getZ()) for the three points,
\* from point number i; p.getX() on no object raises.
RECURSIVE lusas_addCoords(_, _, _, _)
lusas_addCoords(m, ps, i, held) ==
    IF i > Len(ps) THEN [m |-> m, ok |-> TRUE]
    ELSE IF ps[i] \notin held THEN [m |-> m, ok |-> FALSE]
    ELSE Then(InOrder(m, <<"getX", "getY", "getZ">>, 1), LAMBDA g :
         IF ~g.ok THEN g
         ELSE Then(Call(g.m, "addCoords", g.m.modeller, PointAt(ps[i])),
              LAMBDA a :
              IF ~a.ok THEN a ELSE lusas_addCoords(a.m, ps, i + 1, held)))

RECURSIVE Coords(_, _)
Coords(ps, i) == IF i > Len(ps) THEN <<>> ELSE PointAt(ps[i]) \o Coords(ps, i + 1)

\* Lusas.create_arc_by_points
lusas_create_arc_by_points(m, p1, p2, p3, held, raises) ==
    Then(lusas_set_modeller(Enter(m, "create_arc_by_points", <<p1, p2, p3>>),
                            TRUE), LAMBDA s :
    IF s.ret.kind = "raise" THEN s
    ELSE IF ~s.ret.b THEN [m |-> s.m, ret |-> RetStr(CannotConnectLusas)]
    ELSE Then(lusas_getObject(s.m, <<p1, p2, p3>>, 1, held, raises), LAMBDA r :
         IF ~r.ok
         THEN [m |-> r.m,
               ret |-> RetStr(Failed(": Failed to create arc line by points."))]
         ELSE Then(InOrder(r.m, <<"geometryData", "setAllDefaults",
                                  "setCreateMethod", "keepMinor",
                                  "setStartMiddleEnd">>, 1), LAMBDA g :
              IF ~g.ok
              THEN [m |-> g.m,
                    ret |-> RetStr(Failed(": Failed to create arc line by points."))]
              ELSE Then(lusas_addCoords(g.m, StartMiddleEnd(p1, p2, p3), 1, held),
                   LAMBDA a :
                   IF ~a.ok
                   THEN [m |-> a.m,
                         ret |-> RetStr(Failed(": Failed to create arc line by points."))]
                   ELSE Then(Call(a.m, "setLowerOrderGeometryType", a.m.modeller,
                                  <<>>), LAMBDA t :
                        IF ~t.ok
                        THEN [m |-> t.m,
                              ret |-> RetStr(Failed(": Failed to create arc line by points."))]
                        ELSE Then(Call(t.m, "createLine", t.m.modeller,
                                       Coords(StartMiddleEnd(p1, p2, p3), 1)),
                             LAMBDA c :
                             IF ~c.ok
                             THEN [m |-> c.m,
                                   ret |-> RetStr(Failed(": Failed to create arc line by points."))]
                             ELSE Then(InOrder(c.m, <<"getObjects", "getID">>, 1),
                                  LAMBDA i :
                                  IF ~i.ok
                                  THEN [m |-> i.m,
                                        ret |-> RetStr(Failed(": Failed to create arc line by points."))]
                                  ELSE [m |-> i.m,
                                        ret |-> RetStr(Created("Line created successfully with ID {id}."))])))))))

\* Lusas.create_volume: the object set surfsObj is filled with the surfaces
\* and not used again; the volume is asked of db() with geom_data, which
\* holds no surface.
lusas_create_volume(m, surfs) ==
    Then(lusas_set_modeller(Enter(m, "create_volume", surfs), TRUE), LAMBDA s :
    IF s.ret.kind = "raise" THEN s
    ELSE IF ~s.ret.b THEN [m |-> s.m, ret |-> RetStr(CannotConnectLusas)]
    ELSE Then(InOrder(s.m, <<"geometryData", "setAllDefaults", "setCreateMethod",
                             "setExtractAllVolumes", "newObjectSet">>, 1),
         LAMBDA g :
         IF ~g.ok
         THEN [m |-> g.m,
               ret |-> RetStr(Failed(": Failed to create volume by surfaces."))]
         ELSE Then(lusas_add(g.m, "add(surface)", surfs, 1), LAMBDA a :
              IF ~a.ok
              THEN [m |-> a.m,
                    ret |-> RetStr(Failed(": Failed to create volume by surfaces."))]
              ELSE Then(Call(a.m, "createVolume", a.m.modeller, <<>>), LAMBDA c :
                   IF ~c.ok
                   THEN [m |-> c.m,
                         ret |-> RetStr(Failed(": Failed to create volume by surfaces."))]
                   ELSE Then(InOrder(c.m, <<"getObjects", "getID">>, 1), LAMBDA i :
                        IF ~i.ok
                        THEN [m |-> i.m,
                              ret |-> RetStr(Failed(": Failed to create volume by surfaces."))]
                        ELSE [m |-> i.m,
                              ret |-> RetStr(Created("Volume created successfully with ID {id}."))])))))

\* The ids of three points and the points the database holds
IdTriples == {<<1, 2, 3>>, <<3, 1, 2>>}
HeldPoints == {{1, 2, 3}, {1, 2}, {3}}

LusasCreateArcByPoints ==
    \E ps \in IdTriples, held \in HeldPoints, raises \in BOOLEAN,
       o \in Oracles(30) :
        /\ feaName = "LUSAS"
        /\ Begin("create_arc_by_points", [ids |-> ps, held |-> held])
        /\ Finish(lusas_create_arc_by_points(Machine(o, 0), ps[1], ps[2], ps[3],
                                             held, raises))

LusasCreateVolume ==
    \E surfs \in IdLists, o \in Oracles(16) :
        /\ feaName = "LUSAS"
        /\ Begin("create_volume", surfs)
        /\ Finish(lusas_create_volume(Machine(o, 0), surfs))

\* The operations on objects given by their ids, called on the adapter
\* object while the application comes and goes.
NextById ==
    \/ AppExit
    \/ AppLaunch
    \/ AppModel
    \/ Return
    \/ LusasSweepPoints
    \/ LusasSweepLines
    \/ LusasSweepSurfaces
    \/ LusasCreateArcByPoints
    \/ LusasCreateVolume

SpecById == Init /\ [][NextById]_vars

----------------------------------------------------------------------------
(* The enumerations *)

\* The longest flat coordinate array and the most areas of a reply
MaxFlat == 5
MaxAreas == 2

Min(a, b) == IF a <= b THEN a ELSE b

\* The slice s[i:j] of a list for 0 <= i and 0 <= j, the positions counted
\* from 0 as the code counts them: a slice ends where the list ends.
slice_without_last(s, i, j) == SubSeq(s, i + 1, Min(j - 1, Len(s)))

slice(s, i, j) == SubSeq(s, i + 1, Min(j, Len(s)))

\* Etabs.py lines 340-347 (and 273-279): the loop over the delimiters, from
\* the turn of delimiter number count with i as the loop left it; names[count]
\* past the end of names raises IndexError.
RECURSIVE etabs_areas(_, _, _)
etabs_areas(r, count, i) ==
    IF count > Len(r.delim) THEN [ok |-> TRUE, list |-> <<>>]
    ELSE IF count > Len(r.names) THEN [ok |-> FALSE, list |-> <<>>]
    ELSE Then(etabs_areas(r, count + 1, r.delim[count] + 1), LAMBDA rest :
         [ok |-> rest.ok,
          list |-> <<[type |-> S_surface,
                      xs |-> slice(r.x_coords, i, r.delim[count] + 1),
                      ys |-> slice(r.y_coords, i, r.delim[count] + 1),
                      zs |-> slice(r.z_coords, i, r.delim[count] + 1),
                      id |-> r.names[count]]>> \o rest.list])

\* Etabs.get_areas; areas is what GetAllAreas returns
etabs_get_areas(m, areas) ==
    Then(etabs_set_modeller(Enter(m, "get_areas", <<>>), TRUE), LAMBDA s :
    IF s.ret.kind = "raise" THEN s
    ELSE IF ~s.ret.b THEN etabs_versionString(s.m)
    ELSE Then(Query(s.m, "GetAllAreas", s.m.SapModel, areas), LAMBDA g :
         IF ~g.ok
         THEN [m |-> g.m, ret |-> RetStr(Failed(": Failed getting areas."))]
         ELSE Then(etabs_areas(areas, 1, 0), LAMBDA a :
              IF ~a.ok
              THEN [m |-> g.m, ret |-> RetStr(Failed(": Failed getting areas."))]
              ELSE [m |-> g.m, ret |-> RetList(a.list)])))

\* GeomObject(type="point", ...) for each point of GetAllPoints and
\* GeomObject(type="line", ...) for each frame of GetAllFrames
etabs_point_geoms(pts) ==
    [i \in DOMAIN pts |->
        [type |-> S_point, xs |-> <<pts[i].x>>, ys |-> <<pts[i].y>>,
         zs |-> <<pts[i].z>>, id |-> pts[i].name]]

etabs_frame_geoms(frames) ==
    [i \in DOMAIN frames |->
        [type |-> S_line, xs |-> <<frames[i].x1, frames[i].x2>>,
         ys |-> <<frames[i].y1, frames[i].y2>>,
         zs |-> <<frames[i].z1, frames[i].z2>>, id |-> frames[i].name]]

\* Etabs.get_frames; frames is what GetAllFrames returns, a sequence of
\* [name, x1, y1, z1, x2, y2, z2]
etabs_get_frames(m, frames) ==
    Then(etabs_set_modeller(Enter(m, "get_frames", <<>>), TRUE), LAMBDA s :
    IF s.ret.kind = "raise" THEN s
    ELSE IF ~s.ret.b THEN etabs_versionString(s.m)
    ELSE Then(Query(s.m, "GetAllFrames", s.m.SapModel, frames), LAMBDA g :
         IF ~g.ok
         THEN [m |-> g.m, ret |-> RetStr(Failed(": Failed getting frames."))]
         ELSE [m |-> g.m, ret |-> RetList(etabs_frame_geoms(frames))]))

geoms_as_they_are(m, geoms) == [m |-> m, ret |-> RetList(geoms)]

\* lines 284-286 of Etabs.py and 555-557 of Lusas.py
geoms_or_none(m, geoms) ==
    [m |-> m,
     ret |-> IF Len(geoms) = 0
             THEN RetStr(Created("No geometries found in the model."))
             ELSE RetList(geoms)]

FailedGeometries(m) ==
    [m |-> m, ret |-> RetStr(Failed(": Failed getting geometries."))]

\* Etabs.get_geometries: the three stages, each announced to the progress
\* sink before its query, inside one try block.
etabs_get_geometries(m, pts, frames, areas) ==
    Then(etabs_set_modeller(Enter(m, "get_geometries", <<>>), TRUE), LAMBDA s :
    IF s.ret.kind = "raise" THEN s
    ELSE IF ~s.ret.b THEN etabs_versionString(s.m)
    ELSE Then(Query(Notify(s.m, 0, 3), "GetAllPoints", s.m.SapModel, pts),
         LAMBDA p :
         IF ~p.ok THEN FailedGeometries(p.m)
         ELSE Then(Query(Notify(p.m, 1, 3), "GetAllFrames", p.m.SapModel, frames),
              LAMBDA f :
              IF ~f.ok THEN FailedGeometries(f.m)
              ELSE Then(Query(Notify(f.m, 2, 3), "GetAllAreas", f.m.SapModel, areas),
                   LAMBDA g :
                   IF ~g.ok THEN FailedGeometries(g.m)
                   ELSE Then(etabs_areas(areas, 1, 0), LAMBDA a :
                        IF ~a.ok THEN FailedGeometries(g.m)
                        ELSE geoms_or_none(g.m, etabs_point_geoms(pts) \o
                                 etabs_frame_geoms(frames) \o a.list))))))

\* The calls made for one object of a LUSAS query, in the order of the
\* statement that builds its GeomObject: a point is read directly, the points
\* of a line, surface or volume are fetched through an object set first;
\* get_points reads neither the id nor the selection.
lusas_entity_calls(ty, e, ident) ==
    (IF ty = S_point THEN <<>>
     ELSE <<"newObjectSet", "add", "addLOF", "getObjects(Points)">>)
    \o [i \in DOMAIN e.xs |-> "getX"] \o [i \in DOMAIN e.ys |-> "getY"]
    \o [i \in DOMAIN e.zs |-> "getZ"]
    \o (IF ident THEN <<"getID", "isSelected">> ELSE <<>>)

\* for pnt in points: geoms.append(GeomObject(...)), from object number i;
\* without id= and selected= a GeomObject has id -1 and selected False.
RECURSIVE lusas_entities(_, _, _, _, _)
lusas_entities(m, ty, ents, i, ident) ==
    IF i > Len(ents) THEN [m |-> m, ok |-> TRUE, list |-> <<>>]
    ELSE Then(InOrder(m, lusas_entity_calls(ty, ents[i], ident), 1), LAMBDA c :
         IF ~c.ok THEN [m |-> c.m, ok |-> FALSE, list |-> <<>>]
         ELSE Then(lusas_entities(c.m, ty, ents, i + 1, ident), LAMBDA rest :
              [m |-> rest.m, ok |-> rest.ok,
               list |-> <<[type |-> ty, xs |-> ents[i].xs, ys |-> ents[i].ys,
                           zs |-> ents[i].zs,
                           id |-> IF ident THEN ents[i].id ELSE -1,
                           selected |-> IF ident THEN ents[i].selected
                                        ELSE FALSE]>> \o rest.list]))

\* One query of the database and the loop over what it returned; ents is
\* what the database holds of that kind, a sequence of
\* [id, xs, ys, zs, selected].
lusas_stage(m, call, ty, ents, ident) ==
    Then(Query(m, call, m.modeller, ents), LAMBDA q :
    IF ~q.ok THEN [m |-> q.m, ok |-> FALSE, list |-> <<>>]
    ELSE lusas_entities(q.m, ty, ents, 1, ident))

\* The shape get_points, get_lines, get_surfaces and get_volumes share
lusas_get(m, name, call, ty, ents, ident, failText) ==
    Then(lusas_set_modeller(Enter(m, name, <<>>), TRUE), LAMBDA s :
    IF s.ret.kind = "raise" THEN s
    ELSE IF ~s.ret.b THEN [m |-> s.m, ret |-> RetStr(CannotConnectLusas)]
    ELSE Then(lusas_stage(s.m, call, ty, ents, ident), LAMBDA g :
         IF ~g.ok THEN [m |-> g.m, ret |-> RetStr(Failed(failText))]
         ELSE [m |-> g.m, ret |-> RetList(g.list)]))

\* line 572: GeomObject(type="point", xs=[...], ys=[...], zs=[...])
lusas_get_points(m, ents) ==
    lusas_get(m, "get_points", "db.getObjects(Points)", S_point, ents, FALSE,
              ": Failed getting point.")

lusas_get_lines(m, ents) ==
    lusas_get(m, "get_lines", "db.getObjects(Lines)", S_line, ents, TRUE,
              ": Failed getting lines.")

lusas_get_surfaces(m, ents) ==
    lusas_get(m, "get_surfaces", "db.getObjects(Surfaces)", S_surface, ents, TRUE,
              ": Failed getting surfaces.")

lusas_get_volumes(m, ents) ==
    lusas_get(m, "get_volumes", "db.getObjects(Volumes)", lower(S_Volume), ents,
              TRUE, ": Failed getting volumes.")

\* Lusas.get_geometries: the four stages, each announced to the progress
\* sink before its query, inside one try block; db is what the database
\* holds.
lusas_get_geometries(m, db) ==
    Then(lusas_set_modeller(Enter(m, "get_geometries", <<>>), TRUE), LAMBDA s :
    IF s.ret.kind = "raise" THEN s
    ELSE IF ~s.ret.b THEN [m |-> s.m, ret |-> RetStr(CannotConnectLusas)]
    ELSE Then(lusas_stage(Notify(s.m, 0, 4), "db.getObjects(Points)", S_point,
                          db.points, TRUE), LAMBDA p :
         IF ~p.ok THEN FailedGeometries(p.m)
         ELSE Then(lusas_stage(Notify(p.m, 1, 4), "db.getObjects(Lines)", S_line,
                               db.lines, TRUE), LAMBDA l :
              IF ~l.ok THEN FailedGeometries(l.m)
              ELSE Then(lusas_stage(Notify(l.m, 2, 4), "db.getObjects(Surfaces)",
                                    S_surface, db.surfaces, TRUE), LAMBDA f :
                   IF ~f.ok THEN FailedGeometries(f.m)
                   ELSE Then(lusas_stage(Notify(f.m, 3, 4), "db.getObjects(Volumes)",
                                         lower(S_Volume), db.volumes, TRUE),
                        LAMBDA v :
                        IF ~v.ok THEN FailedGeometries(v.m)
                        ELSE geoms_or_none(v.m, p.list \o l.list \o f.list
                                                 \o v.list))))))

\* What GetAllAreas may return: the names, the delimiters (strictly
\* increasing positions, the last of them not always inside the arrays) and
\* the flat coordinate arrays.
Delims ==
    {d \in UNION {[1..n -> 0..MaxFlat] : n \in 0..MaxAreas} :
        \A a, b \in DOMAIN d : a < b => d[a] < d[b]}

AreaReplies ==
    {[names |-> [k \in 1..nn |-> 100 + k], delim |-> d,
      x_coords |-> CoordList(10, n), y_coords |-> CoordList(20, n),
      z_coords |-> CoordList(30, n)] :
        nn \in 0..MaxAreas, d \in Delims, n \in {0, MaxFlat - 1, MaxFlat}}

EtabsGetAreas ==
    \E areas \in AreaReplies, o \in Oracles(10) :
        /\ feaName = "ETABS"
        /\ Begin("get_areas", FALSE)
        /\ Finish(etabs_get_areas(Machine(o, 0), areas))

\* What the other queries may return: nothing, or objects with n points
Entity(id, n) ==
    [id |-> id, xs |-> CoordList(10 * id, n), ys |-> CoordList(10 * id + 3, n),
     zs |-> CoordList(10 * id + 6, n), selected |-> id % 2 = 0]

PointReplies == {<<>>, <<[name |-> 1, x |-> 1, y |-> 2, z |-> 3]>>}

FrameReplies ==
    {<<>>, <<[name |-> 11, x1 |-> 1, y1 |-> 2, z1 |-> 3,
              x2 |-> 4, y2 |-> 5, z2 |-> 6]>>}

LusasPoints == {<<>>, <<Entity(1, 1), Entity(2, 1)>>}
LusasLines == {<<>>, <<Entity(3, 2)>>}
LusasSurfaces == {<<>>, <<Entity(4, MaxCoords)>>}
LusasVolumes == {<<>>, <<Entity(5, MaxCoords)>>}

EtabsGetFrames ==
    \E frames \in FrameReplies, o \in Oracles(10) :
        /\ feaName = "ETABS"
        /\ Begin("get_frames", FALSE)
        /\ Finish(etabs_get_frames(Machine(o, 0), frames))

EtabsGetGeometries ==
    \E pts \in PointReplies, frames \in FrameReplies,
       areas \in {a \in AreaReplies : Len(a.x_coords) # MaxFlat},
       o \in Oracles(12) :
        /\ feaName = "ETABS"
        /\ Begin("get_geometries", FALSE)
        /\ Finish(etabs_get_geometries(Machine(o, 0), pts, frames, areas))

LusasGetPoints ==
    \E ents \in LusasPoints, o \in Oracles(12) :
        /\ feaName = "LUSAS"
        /\ Begin("get_points", FALSE)
        /\ Finish(lusas_get_points(Machine(o, 0), ents))

LusasGetLines ==
    \E ents \in LusasLines, o \in Oracles(18) :
        /\ feaName = "LUSAS"
        /\ Begin("get_lines", FALSE)
        /\ Finish(lusas_get_lines(Machine(o, 0), ents))

LusasGetSurfaces ==
    \E ents \in LusasSurfaces, o \in Oracles(21) :
        /\ feaName = "LUSAS"
        /\ Begin("get_surfaces", FALSE)
        /\ Finish(lusas_get_surfaces(Machine(o, 0), ents))

LusasGetVolumes ==
    \E ents \in LusasVolumes, o \in Oracles(21) :
        /\ feaName = "LUSAS"
        /\ Begin("get_volumes", FALSE)
        /\ Finish(lusas_get_volumes(Machine(o, 0), ents))

LusasGetGeometries ==
    \E points \in LusasPoints, lines \in LusasLines,
       surfaces \in LusasSurfaces, volumes \in LusasVolumes, o \in Oracles(60) :
        /\ feaName = "LUSAS"
        /\ Begin("get_geometries", FALSE)
        /\ Finish(lusas_get_geometries(Machine(o, 0),
               [points |-> points, lines |-> lines, surfaces |-> surfaces,
                volumes |-> volumes]))

\* The enumerations called on the adapter object while the application
\* comes and goes.
NextGet ==
    \/ AppExit
    \/ AppLaunch
    \/ AppModel
    \/ Return
    \/ EtabsGetPoints
    \/ EtabsGetFrames
    \/ EtabsGetAreas
    \/ EtabsGetGeometries
    \/ LusasGetPoints
    \/ LusasGetLines
    \/ LusasGetSurfaces
    \/ LusasGetVolumes
    \/ LusasGetGeometries

SpecGet == Init /\ [][NextGet]_vars

----------------------------------------------------------------------------
(* server.py: the facade over the adapter object *)

supportedSoftware == {"LUSAS", "ETABS"}

\* The values config.feaName may have: the supported names and one that is
\* not
FeaNames == supportedSoftware \cup {"SAP2000"}

\* The methods the adapter classes define (the def lines of Lusas.py and
\* Etabs.py)
LusasDefines ==
    {"set_modeller", "get_units", "create_point", "create_points",
     "create_line_by_coordinates", "create_line_by_points",
     "create_arc_by_points", "create_arc_by_coordinates",
     "create_spline_by_coordinates", "create_spline_by_points",
     "create_surface_by_coordinates", "create_surface_by_lines",
     "create_volume", "create_objects_by_coordinates", "sweep_points",
     "sweep_lines", "sweep_surfaces", "get_geometries", "get_points",
     "get_lines", "get_surfaces", "get_volumes", "select", "sweep_Ext",
     "sweepRot_Ext"}

EtabsDefines ==
    {"set_modeller", "get_version", "get_units", "save", "create_joint",
     "create_frame", "create_area", "create_solid",
     "create_objects_by_coordinates", "get_geometries", "get_points",
     "get_frames", "get_areas"}

Defines(name) == IF name = "LUSAS" THEN LusasDefines ELSE EtabsDefines

\* lines 176-183: the attributes of the Lusas object registered as tools
LusasTools ==
    {"createPoints", "createLineByPoints", "createArcByPoints",
     "createArcByCoordinates", "createSurfaceByLines", "sweepPoints",
     "sweepLines", "sweepSurfaces"}

AlreadyConnected ==
    Msg("", "Already connected on {config.feaName} version {config.feaVersion}.",
        <<>>, <<>>, "")
UnsupportedSoftware ==
    Msg("", "Unsupported software. Please set from: LUSAS, ETABS.", <<>>, <<>>, "")
FailedToConnect ==
    Msg("", "Failed to connect to the specified software instance ({config.feaName}, {config.feaVersion}).",
        <<>>, <<>>, "")
Connected ==
    Msg("", "Connected on {config.feaName} version {config.feaVersion}",
        <<>>, <<>>, "")
OpenAndConnect ==
    Msg("", "Open and connect a software instance first.", <<>>, <<>>, "")

\* An attribute of the adapter object called with argument a: a name the class
\* does not define raises AttributeError, a name it defines runs the method.
adapter_call(m, name, method, a) ==
    IF method \notin Defines(name)
    THEN [m |-> m, ret |-> RetRaise("AttributeError")]
    ELSE CASE method = "get_units" /\ name = "LUSAS" -> lusas_get_units(m)
           [] method = "get_units" /\ name # "LUSAS" -> etabs_get_units(m, a)
           [] method = "create_point" -> lusas_create_point(m, a)
           [] method = "create_joint" -> etabs_create_joint(m, a)
           [] OTHER -> [m |-> m, ret |-> RetNone]

\* getSoftwareObj: the adapter object of a supported name, None when its
\* constructor raised; for any other name the local variable modeller is
\* never assigned and "return modeller", which stands after the try block,
\* raises UnboundLocalError.
getSoftwareObj(name, m) ==
    IF name \in {"LUSAS", "ETABS"}
    THEN Then(construct(name, [m EXCEPT !.modeller = 0, !.SapModel = 0]),
         LAMBDA r :
         IF r.ret.kind = "raise"
         THEN [m |-> [r.m EXCEPT !.modeller = 0, !.SapModel = 0],
               ret |-> RetNone, obj |-> "None"]
         ELSE [m |-> r.m, ret |-> RetNone, obj |-> "object"])
    ELSE [m |-> m, ret |-> RetRaise("UnboundLocalError"), obj |-> "unbound"]

\* lines 167-186, run when the module is loaded: feaSoftware is assigned and,
\* for LUSAS, eight attributes of the object are read to register them.
main(name, m) ==
    Then(getSoftwareObj(name, m), LAMBDA g :
    IF g.ret.kind = "raise" THEN g
    ELSE IF name = "LUSAS"
    THEN IF g.obj = "object" /\ LusasTools \subseteq Defines(name) THEN g
         ELSE [g EXCEPT !.ret = RetRaise("AttributeError")]
    ELSE g)

\* connectOnSoftware, with obj the value of feaSoftware
connectOnSoftware(name, obj, m) ==
    IF obj # "None" THEN [m |-> m, ret |-> RetStr(AlreadyConnected), obj |-> obj]
    ELSE IF name \notin supportedSoftware
    THEN [m |-> m, ret |-> RetStr(UnsupportedSoftware), obj |-> obj]
    ELSE Then(getSoftwareObj(name, m), LAMBDA g :
         IF g.ret.kind = "raise" THEN g
         ELSE IF g.obj = "None"
         THEN [m |-> g.m, ret |-> RetStr(FailedToConnect), obj |-> g.obj]
         ELSE [m |-> g.m, ret |-> RetStr(Connected), obj |-> g.obj])

\* getModelUnits
getModelUnits(name, obj, m, MyUnits) ==
    IF obj # "object" THEN [m |-> m, ret |-> RetStr(OpenAndConnect)]
    ELSE adapter_call(Enter(m, "getUnits", <<>>), name, "getUnits", MyUnits)

\* The shape createPoint, createLine and createSurface share: the method of
\* the ETABS adapter gives an id that is wrapped into the message unless it
\* starts with "Error", the answer of the LUSAS method is returned as it is.
facade_create(name, obj, m, etabsMethod, lusasMethod, a, okText) ==
    IF obj # "object" THEN [m |-> m, ret |-> RetStr(OpenAndConnect)]
    ELSE IF name \in {"ETABS", "SAP2000"}
    THEN Then(adapter_call(Enter(m, etabsMethod, a), name, etabsMethod, a),
         LAMBDA id :
         IF id.ret.kind # "str" \/ id.ret.msg.pre = "Error" THEN id
         ELSE [m |-> id.m, ret |-> RetStr(Created(okText))])
    ELSE IF name = "LUSAS"
    THEN adapter_call(Enter(m, lusasMethod, a), name, lusasMethod, a)
    ELSE [m |-> m, ret |-> RetRaise("UnboundLocalError")]

createPoint(name, obj, m, p) ==
    facade_create(name, obj, m, "createJoint", "createPoint", p,
                  "Point created successfully with ID {id}.")

createLine(name, obj, m, p1, p2) ==
    facade_create(name, obj, m, "createFrame", "createLineByCoordinates",
                  p1 \o p2, "Line created successfully with ID {id}.")

createSurface(name, obj, m, x, y, z) ==
    facade_create(name, obj, m, "createArea", "createSurfaceByCoordinates",
                  <<x, y, z>>,
                  "Line created successfully with ID {id}.")

\* The end of a facade call
Answer(r) ==
    \E v \in {r} :
        /\ modeller' = v.m.modeller
        /\ SapModel' = v.m.SapModel
        /\ app' = v.m.app
        /\ log' = v.m.log
        /\ ret' = v.ret
        /\ pc' = "done"
        /\ NoBatch
        /\ UNCHANGED feaName

ConnectOnSoftware ==
    \E o \in Oracles(9) :
        /\ Begin("connectOnSoftware", FALSE)
        /\ \E r \in {connectOnSoftware(feaName, feaSoftware, Machine(o, 0))} :
               /\ Answer(r)
               /\ feaSoftware' = r.obj

GetModelUnits ==
    \E MyUnits \in {0, 6} :
        /\ Begin("getModelUnits", FALSE)
        /\ Answer(getModelUnits(feaName, feaSoftware, Machine({}, 0), MyUnits))
        /\ UNCHANGED feaSoftware

CreatePoint ==
    \E p \in Points :
        /\ Begin("createPoint", FALSE)
        /\ Answer(createPoint(feaName, feaSoftware, Machine({}, 0), p))
        /\ UNCHANGED feaSoftware

CreateLine ==
    \E p1 \in Points, p2 \in Points :
        /\ Begin("createLine", FALSE)
        /\ Answer(createLine(feaName, feaSoftware, Machine({}, 0), p1, p2))
        /\ UNCHANGED feaSoftware

CreateSurface ==
    \E x \in Lists, y \in Lists, z \in Lists :
        /\ Begin("createSurface", FALSE)
        /\ Answer(createSurface(feaName, feaSoftware, Machine({}, 0), x, y, z))
        /\ UNCHANGED feaSoftware

\* The state after server.py was loaded; a module that raised while loading
\* leaves no process to call.
InitServer ==
    /\ feaName \in FeaNames
    /\ \E running \in BOOLEAN, db \in BOOLEAN, o \in Oracles(9) :
        LET a == IF running THEN [NoApp EXCEPT !.inst = 1, !.launches = 1, !.db = db]
                 ELSE NoApp
            m == [modeller |-> 0, SapModel |-> 0, app |-> a, log |-> <<>>,
                  faults |-> o, k |-> 0, item |-> 0]
            r == main(feaName, m)
        IN  /\ modeller = r.m.modeller
            /\ SapModel = r.m.SapModel
            /\ app = r.m.app
            /\ log = r.m.log
            /\ ret = r.ret
            /\ feaSoftware = r.obj
            /\ pc = IF r.ret.kind = "raise" THEN "crashed" ELSE "done"
            /\ pre = [modeller |-> 0, SapModel |-> 0, app |-> a]
    /\ op = "__main__"
    /\ arg = FALSE
    /\ objects = <<>>
    /\ idx = 0
    /\ results = <<>>
    /\ progress = <<>>

NextServer ==
    \/ AppExit
    \/ AppLaunch
    \/ AppModel
    \/ Return
    \/ ConnectOnSoftware
    \/ GetModelUnits
    \/ CreatePoint
    \/ CreateLine
    \/ CreateSurface

SpecServer == InitServer /\ [][NextServer]_vars

----------------------------------------------------------------------------
(* What the caller and the log show of an operation *)

Done == pc = "done"
Batch == op = "create_objects_by_coordinates"
SetModeller == op \in {"set_modeller", "__init__"}
Operation == op \notin {"", "set_modeller", "__init__"}

\* The handle of the adapter object now and at the start of the operation.
Handle == IF feaName = "LUSAS" THEN modeller ELSE SapModel
PreHandle == IF feaName = "LUSAS" THEN pre.modeller ELSE pre.SapModel

\* The handle held at the start was taken from an instance that is gone.
Stale == PreHandle # 0 /\ PreHandle # pre.app.inst

\* The calls through which an adapter attaches to a running instance, one
\* per attempt.
Attaches ==
    {k \in DOMAIN log : /\ log[k].layer = "backend"
                        /\ log[k].call \in {"GetActiveObject", "CreateObject"}}

\* The calls of the connection check; every other backend call creates or
\* queries.
CheckCalls ==
    {"existsDatabase", "newProject", "GetActiveObject", "CreateObject",
     "GetObject", "ApplicationStart", "InitializeNewModel", "NewBlank",
     "GetOAPIVersionNumber", "SapModel"}

Work ==
    {k \in DOMAIN log : /\ log[k].layer = "backend"
                        /\ log[k].call \notin CheckCalls}

\* Backend calls made through a handle that raised.
Raised ==
    {k \in DOMAIN log : /\ log[k].layer = "backend"
                        /\ log[k].h # 0
                        /\ ~log[k].ok}

\* The answers of the connection check at the start of the operation
\* (item 0) and of the checks made for request i of a batch.
Checks(i) == {k \in DOMAIN log : log[k].layer = "check" /\ log[k].item = i}
CheckedTrue == \E k \in Checks(0) : log[k].call = "return" /\ log[k].ok
CheckedFalse == \E k \in Checks(0) : log[k].call = "return" /\ ~log[k].ok

CannotConnect ==
    IF feaName = "LUSAS" THEN CannotConnectLusas ELSE CannotConnectEtabs

\* The types the batch of the selected backend creates.
Supported ==
    IF feaName = "LUSAS"
    THEN {S_point, S_straight_line, S_arc, S_spline, S_surface}
    ELSE {S_point, S_line, S_surface}

\* The number of points the call selected by a supported type reads with an
\* index.
Indexed(ty) ==
    IF ty = S_point THEN 1
    ELSE IF ty \in {S_line, S_straight_line} THEN 2
    ELSE IF ty = S_arc THEN 3
    ELSE 0

\* Request i has a supported type and coordinates for it.
WellFormed(i) ==
    /\ lower(objects[i].type) \in Supported
    /\ Indexed(lower(objects[i].type)) = 0
         \/ HasIndex(objects[i], Indexed(lower(objects[i].type)) - 1)

\* Request i was handed to an adapter operation.
Entered(i) == \E k \in DOMAIN log : log[k].layer = "adapter" /\ log[k].item = i

\* The handling of request i failed: its connection check did not answer
\* True, a call made after it raised or returned a nonzero code, or
\* its coordinates were too few for its type.
ItemFailed(i) ==
    \/ \E k \in Checks(i) : ~log[k].ok
    \/ \E j \in Checks(i) : \E k \in DOMAIN log :
           /\ j < k
           /\ log[k].item = i
           /\ log[k].layer \in {"backend", "code"}
           /\ ~log[k].ok
    \/ lower(objects[i].type) \in Supported /\ ~WellFormed(i)

----------------------------------------------------------------------------
(* create_objects_by_coordinates *)

\* C1: once the connection check at the start of
\* create_objects_by_coordinates has answered True, the operation returns a
\* list with one string per request, the i-th string being the outcome of
\* the i-th request (a string that names a type names the type of that
\* request), however many requests fail.
C1_BatchReturnsOneStringPerRequest ==
    (Done /\ Batch /\ CheckedTrue) =>
        /\ ret.kind = "list"
        /\ Len(ret.list) = Len(objects)
        /\ \A i \in DOMAIN ret.list :
               ret.list[i].otype \in {<<>>, lower(objects[i].type)}

\* The batch entered its loop: the connection check answered True and, on
\* LUSAS, beginCommandBatch returned.
Looped ==
    /\ CheckedTrue
    /\ feaName = "LUSAS" =>
           \E k \in DOMAIN log : log[k].call = "beginCommandBatch" /\ log[k].ok

\* C2: when the handling of request i fails, slot i holds an error string,
\* and the loop goes on: there is one slot per request the loop has passed,
\* every well-formed request passed was handed to its adapter operation, and
\* a batch that entered the loop ends with every request passed.
C2_FailureNeverStopsTheLoop ==
    Batch =>
        /\ Len(results) = idx
        /\ \A i \in 1..idx : ItemFailed(i) => results[i].pre = "Error"
        /\ \A i \in 1..idx : WellFormed(i) => Entered(i)
        /\ (Done /\ Looped) => idx = Len(objects)

\* C2, its case: the first of two requests failed, the second was handed to
\* its adapter operation and created.
C2_Witness ==
    /\ Done
    /\ Batch
    /\ ret.kind = "list"
    /\ Len(objects) = 2
    /\ ItemFailed(1)
    /\ results[1].pre = "Error"
    /\ Entered(2)
    /\ results[2].pre = ""

\* C3: a request whose lower-cased type the batch of the selected backend
\* does not create gets the string "Error: Unsupported type '<type>'." in its
\* slot, <type> being the lower-cased type, and nothing is called for it; no
\* other slot holds that string.
C3_UnsupportedTypeSlot ==
    Batch => \A i \in DOMAIN results :
        IF lower(objects[i].type) \notin Supported
        THEN /\ results[i] = Msg("Error", ": Unsupported type '{obj_type}'.",
                                 lower(objects[i].type), <<>>, "")
             /\ \A k \in DOMAIN log : log[k].item # i
        ELSE results[i].text # ": Unsupported type '{obj_type}'."

\* C3, its case: a request of an unsupported type written with a capital,
\* its slot naming the type in lower case, followed by a request that was
\* created.
C3_Witness ==
    /\ Done
    /\ Batch
    /\ Len(results) = 2
    /\ lower(objects[1].type) \notin Supported
    /\ results[1].otype = lower(objects[1].type)
    /\ objects[1].type # lower(objects[1].type)
    /\ results[2].pre = ""
    /\ Entered(2)

----------------------------------------------------------------------------
(* Errors of the operations *)

\* C4: when the connection check at the start of an operation answers
\* False, the operation returns the connectivity error string and makes no
\* creation or query call.
C4_NotConnectedReturnsConnectivityError ==
    (Done /\ Operation /\ CheckedFalse) =>
        /\ ret = RetStr(CannotConnect)
        /\ Work = {}

\* C5: when a backend call made by a single-entity creation, units, save or
\* enumeration operation raises, the operation returns a string and no
\* exception leaves it.
C5_BackendExceptionsBecomeStrings ==
    (Done /\ Operation /\ ~Batch /\ Raised # {}) => ret.kind = "str"

----------------------------------------------------------------------------
(* set_modeller *)

\* C6: when set_modeller is called with a handle held and a backend call of
\* the connection check raises, the handle held is given up, an attachment
\* is attempted and set_modeller answers a boolean: no exception reaches its
\* caller.
C6_CheckNeverRaises ==
    (Done /\ op = "set_modeller" /\ PreHandle # 0 /\ Raised # {}) =>
        /\ ret.kind = "bool"
        /\ Attaches # {}

\* C7: when an operation starts on a handle whose instance has gone since
\* the last call, its connection check makes exactly one attachment attempt
\* before any creation or query call, and no creation or query call is made
\* through the stale handle.
C7_StaleHandleOneReattachment ==
    (Done /\ Operation /\ Stale) =>
        /\ Cardinality({a \in Attaches : \A w \in Work : a < w}) = 1
        /\ \A w \in Work : log[w].h # PreHandle

\* C8: one transport-facing call makes at most one attachment attempt,
\* whenever the application goes, and a call that cannot connect returns the
\* connectivity error string.
C8_AtMostOneReattachmentPerCall ==
    (Done /\ op # "") =>
        /\ Cardinality(Attaches) <= 1
        /\ (Operation /\ CheckedFalse) => ret.kind = "str" /\ ret.msg = CannotConnect

\* The held handle was given up by the connection check (Lusas.py line 43).
Discarded ==
    /\ feaName = "LUSAS"
    /\ pre.modeller # 0
    /\ \E k \in Raised : log[k].h = pre.modeller /\ \A a \in Attaches : k < a

C10_BlankModelWhenMissing ==
    (Done /\ op = "set_modeller" /\ ret.kind = "bool" /\ ret.b) =>
        /\ arg => app.db
        /\ ~arg => \A k \in DOMAIN log :
               log[k].call \notin {"newProject", "InitializeNewModel", "NewBlank"}

----------------------------------------------------------------------------
(* The command batch of the LUSAS create_objects_by_coordinates *)

\* The calls of the log with a given name, and those of them that returned.
Calls(name) ==
    {k \in DOMAIN log : log[k].layer = "backend" /\ log[k].call = name}
Returned(name) == {k \in Calls(name) : log[k].ok}

\* C11: one command batch is opened before the first request is processed,
\* and on every path on which the operation ends after that the closing of
\* the batch is called for exactly once and, when it returns, the fitting of
\* the view is called for after it.
C11_BatchClosedOnceThenViewFitted ==
    (Done /\ Batch /\ feaName = "LUSAS" /\ Returned("beginCommandBatch") # {}) =>
        /\ Cardinality(Calls("beginCommandBatch")) = 1
        /\ \A b \in Calls("beginCommandBatch") :
               \A k \in DOMAIN log : log[k].item # 0 => b < k
        /\ Cardinality(Calls("closeCommandBatch")) = 1
        /\ \A c \in Returned("closeCommandBatch") :
               \E v \in Calls("scaleToFit") : c < v

----------------------------------------------------------------------------
(* Progress of create_objects_by_coordinates *)

\* The notifications the log holds.
Notifications == {k \in DOMAIN log : log[k].layer = "progress"}

\* C13: for a request list of length n the progress sink receives exactly
\* (0,n), (1,n), ..., (n-1,n) in that order, (i,n) after every call made for
\* the requests before request i and before every call made for request i,
\* and the requests are processed in input order.
C13_ProgressBeforeEachRequest ==
    (Done /\ Batch /\ Looped) =>
        /\ progress = [i \in 1..Len(objects) |-> <<i - 1, Len(objects)>>]
        /\ \A i \in 1..Len(objects) : \E k \in Notifications :
               /\ log[k].args = <<i - 1, Len(objects)>>
               /\ \A j \in DOMAIN log :
                      /\ log[j].item = i => k < j
                      /\ (log[j].item # 0 /\ log[j].item < i) => j < k
        /\ \A j, k \in DOMAIN log :
               (j < k /\ log[j].item # 0 /\ log[k].item # 0) =>
                   log[j].item <= log[k].item

----------------------------------------------------------------------------
(* The temporary attribute of a sweep *)

Sweeps == {"sweep_points", "sweep_lines", "sweep_surfaces"}

\* C12: after a sweep operation ends, the temporary transformation attribute
\* it created in the backend has been deleted, whether the sweep call
\* returned or raised.
C12_TemporaryAttributeDeleted ==
    (Done /\ op \in Sweeps /\ Returned("createTranslationTransAttr") # {}) =>
        \E c \in Returned("createTranslationTransAttr") :
            \E d \in Returned("deleteAttribute") : c < d

----------------------------------------------------------------------------
(* The rings of the ETABS areas *)

\* What a backend query of the operation returned
Replied(name) ==
    {k \in DOMAIN log : log[k].layer = "reply" /\ log[k].call = name}
Reply(name) == log[Only(Replied(name))].args

\* The elements of a list at the positions a..b, counted from 0
Between(s, a, b) == [t \in 1..(b - a + 1) |-> s[a + t]]

\* The delimiter before delimiter k: the first ring starts at position 0
Before(d, k) == IF k = 1 THEN -1 ELSE d[k - 1]

----------------------------------------------------------------------------
(* The stages of get_geometries *)

\* The queries of the stages, in the order points, lines, surfaces, volumes
Stages ==
    IF feaName = "LUSAS"
    THEN <<"db.getObjects(Points)", "db.getObjects(Lines)",
           "db.getObjects(Surfaces)", "db.getObjects(Volumes)">>
    ELSE <<"GetAllPoints", "GetAllFrames", "GetAllAreas">>

StageTypes == <<S_point, S_line, S_surface, lower(S_Volume)>>

\* The type and the id of the objects the query of stage s returned, in the
\* order the backend gave them
StageIds(s) ==
    LET r == Reply(Stages[s])
    IN  IF feaName = "LUSAS" THEN [i \in DOMAIN r |-> r[i].id]
        ELSE IF s = 3 THEN [i \in DOMAIN r.delim |-> r.names[i]]
        ELSE [i \in DOMAIN r |-> r[i].name]

StageTags(s) == [i \in DOMAIN StageIds(s) |-> <<StageTypes[s], StageIds(s)[i]>>]

RECURSIVE StagesJoined(_)
StagesJoined(s) == IF s = 0 THEN <<>> ELSE StagesJoined(s - 1) \o StageTags(s)

GetGeometries == Done /\ op = "get_geometries"

\* C15: get_geometries makes the query of each stage at most once and in the
\* order points, lines, surfaces, volumes (LUSAS only); the progress sink
\* receives nothing but (k, N) for the stages k of the N stages, each at most
\* once, and (k, N) before the query of stage k and after the queries of the
\* stages before it; the list returned is the objects of the stages, one
\* stage after the other in that order.
C15_StagesInOrderEachAnnounced ==
    GetGeometries =>
        /\ \A n \in Notifications :
               /\ log[n].args[2] = Len(Stages)
               /\ log[n].args[1] \in 0..(Len(Stages) - 1)
               /\ \A n2 \in Notifications : log[n2].args = log[n].args => n2 = n
        /\ \A s \in DOMAIN Stages : \A q \in Calls(Stages[s]) :
               /\ Calls(Stages[s]) = {q}
               /\ \E n \in Notifications :
                      /\ log[n].args = <<s - 1, Len(Stages)>>
                      /\ n < q
                      /\ \A t \in 1..(s - 1) : \E q2 \in Returned(Stages[t]) : q2 < n
        /\ ret.kind = "list" =>
               /\ \A s \in DOMAIN Stages : Replied(Stages[s]) # {}
               /\ [j \in DOMAIN ret.list |-> <<ret.list[j].type, ret.list[j].id>>]
                      = StagesJoined(Len(Stages))

\* A get_geometries that found objects at every stage
C15_Witness ==
    /\ GetGeometries
    /\ ret.kind = "list"
    /\ \A s \in DOMAIN Stages : Replied(Stages[s]) # {} /\ StageIds(s) # <<>>

----------------------------------------------------------------------------
(* The model without geometry *)

\* The number of objects the query of stage s returned
Found(s) ==
    IF feaName = "ETABS" /\ s = 3 THEN Len(Reply(Stages[s]).delim)
    ELSE Len(Reply(Stages[s]))

AllReplied == \A s \in DOMAIN Stages : Replied(Stages[s]) # {}

NoGeometries == RetStr(Created("No geometries found in the model."))

\* C16: when every query of get_geometries returned and none of them returned
\* an object, the operation returns "No geometries found in the model.";
\* it never returns an empty list, it returns that string only when every
\* query returned and no object was found, and the string is not the one
\* returned when a query fails.
C16_NoGeometriesSentinel ==
    GetGeometries =>
        /\ (AllReplied /\ \A s \in DOMAIN Stages : Found(s) = 0) =>
               ret = NoGeometries
        /\ ret.kind = "list" => Len(ret.list) > 0
        /\ ret = NoGeometries =>
               AllReplied /\ \A s \in DOMAIN Stages : Found(s) = 0
        /\ NoGeometries # RetStr(Failed(": Failed getting geometries."))
        /\ (\E t \in DOMAIN Stages : Calls(Stages[t]) # Returned(Stages[t])) =>
               ret = RetStr(Failed(": Failed getting geometries."))

\* A get_geometries on a model that holds nothing
C16_Witness ==
    /\ GetGeometries
    /\ AllReplied
    /\ \A s \in DOMAIN Stages : Found(s) = 0
    /\ ret = NoGeometries

----------------------------------------------------------------------------
(* Enumerations that fail *)

Enumeration ==
    op \in {"get_points", "get_lines", "get_frames", "get_surfaces", "get_areas",
            "get_volumes", "get_geometries"}

\* A query made after the connection check answered raised.
QueryRaised ==
    \E j \in Checks(0) : \E k \in DOMAIN log :
        j < k /\ log[k].layer = "backend" /\ ~log[k].ok

\* What GetAllAreas returned has fewer names than delimiters.
TooFewNames ==
    /\ Replied("GetAllAreas") # {}
    /\ Len(Reply("GetAllAreas").names) < Len(Reply("GetAllAreas").delim)

\* What GetAllAreas returned has a delimiter that is no position of one of
\* the coordinate arrays.
DelimiterOutside ==
    /\ Replied("GetAllAreas") # {}
    /\ \E k \in DOMAIN Reply("GetAllAreas").delim :
           \/ Reply("GetAllAreas").delim[k] >= Len(Reply("GetAllAreas").x_coords)
           \/ Reply("GetAllAreas").delim[k] >= Len(Reply("GetAllAreas").y_coords)
           \/ Reply("GetAllAreas").delim[k] >= Len(Reply("GetAllAreas").z_coords)

\* C17: an enumeration on a connected session returns one error string, and
\* no list, when a bulk query or a query made for one object raises or when
\* what a query returned has a malformed shape.
C17_FailedEnumerationReturnsOneString ==
    (Done /\ Enumeration /\ CheckedTrue
          /\ (QueryRaised \/ TooFewNames \/ DelimiterOutside)) =>
        ret.kind = "str" /\ ret.msg.pre = "Error"

----------------------------------------------------------------------------
(* Points created and then enumerated *)

\* The points the database held when get_points asked for them, the points
\* created before among them, each with the id the backend gave it
PointsHeld ==
    LET r == Reply(IF feaName = "LUSAS" THEN "db.getObjects(Points)"
                   ELSE "GetAllPoints")
    IN  IF feaName = "LUSAS"
        THEN [i \in DOMAIN r |-> [id |-> r[i].id, xs |-> r[i].xs,
                                  ys |-> r[i].ys, zs |-> r[i].zs]]
        ELSE [i \in DOMAIN r |-> [id |-> r[i].name, xs |-> <<r[i].x>>,
                                  ys |-> <<r[i].y>>, zs |-> <<r[i].z>>]]

\* C18: the list get_points returns holds, for every point of the database,
\* an entity of type point with the coordinates of the point and the id the
\* backend gave it.
C18_PointsCarryTheirBackendId ==
    (Done /\ op = "get_points" /\ ret.kind = "list") =>
        \A i \in DOMAIN PointsHeld : \E j \in DOMAIN ret.list :
            /\ ret.list[j].type = S_point
            /\ ret.list[j].xs = PointsHeld[i].xs
            /\ ret.list[j].ys = PointsHeld[i].ys
            /\ ret.list[j].zs = PointsHeld[i].zs
            /\ ret.list[j].id = PointsHeld[i].id

----------------------------------------------------------------------------
(* The arc through three points *)

ArcByPoints == Done /\ op = "create_arc_by_points"

\* The calls of the given name that returned, with the given arguments
ReturnedWith(name, a) == {k \in Returned(name) : log[k].args = a}

\* C19: when create_arc_by_points asks for the line, the three ids have been
\* resolved to points before, in the order p1, p2, p3, and the coordinates of
\* those points have been added after setStartMiddleEnd in the order start,
\* middle, end; when the database does not hold the point of one of the ids,
\* the operation returns its error string and never asks for the line.
C19_ArcPointsResolvedFirst ==
    ArcByPoints =>
        /\ \A c \in Calls("createLine") :
               /\ \E r1 \in ReturnedWith("getObject", <<arg.ids[1]>>) :
                  \E r2 \in ReturnedWith("getObject", <<arg.ids[2]>>) :
                  \E r3 \in ReturnedWith("getObject", <<arg.ids[3]>>) :
                  \E e \in Returned("setStartMiddleEnd") :
                  \E a1 \in ReturnedWith("addCoords", PointAt(arg.ids[1])) :
                  \E a2 \in ReturnedWith("addCoords", PointAt(arg.ids[2])) :
                  \E a3 \in ReturnedWith("addCoords", PointAt(arg.ids[3])) :
                      r1 < r2 /\ r2 < r3 /\ r3 < e /\ e < a1 /\ a1 < a2
                      /\ a2 < a3 /\ a3 < c
               /\ Cardinality(Calls("addCoords")) = 3
               /\ log[c].args = PointAt(arg.ids[1]) \o PointAt(arg.ids[2])
                                    \o PointAt(arg.ids[3])
        /\ (CheckedTrue /\ \E i \in 1..3 : arg.ids[i] \notin arg.held) =>
               /\ ret = RetStr(Failed(": Failed to create arc line by points."))
               /\ Calls("createLine") = {}

\* An arc refused because the database does not hold the point of the third
\* id, the first two having been resolved
C19_Witness ==
    /\ ArcByPoints
    /\ CheckedTrue
    /\ arg.ids[3] \notin arg.held
    /\ ReturnedWith("getObject", <<arg.ids[1]>>) # {}
    /\ ReturnedWith("getObject", <<arg.ids[2]>>) # {}
    /\ ret = RetStr(Failed(": Failed to create arc line by points."))

----------------------------------------------------------------------------
(* The volume of given surfaces *)

\* C20: the request create_volume submits for the volume is made on exactly
\* the surfaces whose ids it was given.
C20_VolumeRequestCarriesTheSurfaces ==
    (Done /\ op = "create_volume") =>
        \A c \in Calls("createVolume") :
            {log[c].args[i] : i \in DOMAIN log[c].args} =
                {arg[i] : i \in DOMAIN arg}

----------------------------------------------------------------------------
(* What a sweep sweeps *)

\* The additions to the object set the operation sweeps
Added ==
    {k \in DOMAIN log : /\ log[k].layer = "backend"
                        /\ log[k].call \in {"add(point)", "add(line)",
                                            "add(surface)"}}

\* The addition and the kind asked of the sweep that fit the operation
SweptAs ==
    CASE op = "sweep_points" -> [add |-> "add(point)", hofType |-> "Line"]
      [] op = "sweep_lines" -> [add |-> "add(line)", hofType |-> "Surface"]
      [] op = "sweep_surfaces" -> [add |-> "add(surface)", hofType |-> "Volume"]

\* C21: a sweep adds the ids it is given to the swept set as objects of the
\* kind it is named for, each id once and in the order given, and asks for
\* the next-higher kind.
C21_SweepsTheKindItIsNamedFor ==
    (Done /\ op \in Sweeps) =>
        /\ \A k \in Added : log[k].call = SweptAs.add
        /\ \A s \in Calls("sweep") : \A e \in DOMAIN log :
               log[e].layer = "adapter" =>
                   /\ Cardinality({k \in Added : k < s}) = Len(log[e].args)
                   /\ \A i \in DOMAIN log[e].args : \E k \in Added :
                          /\ log[k].args = <<log[e].args[i]>>
                          /\ Cardinality({j \in Added : j <= k}) = i
        /\ \A k \in Calls("setHofType") \cup Calls("setMaximumDimension") :
               log[k].args = <<types_index(SweptAs.hofType)>>

----------------------------------------------------------------------------
(* The software name *)

\* The module has been loaded, or has raised while loading.
Loaded == op = "__main__"

\* C22: with a configured name that is not supported, loading the module and
\* connectOnSoftware both end without an exception, connectOnSoftware with
\* the string that lists the supported names, and neither constructs an
\* adapter object or makes a call to attach.
C22_UnsupportedNameRejected ==
    (feaName \notin supportedSoftware) =>
        /\ Loaded => ret.kind # "raise" /\ log = <<>> /\ feaSoftware # "object"
        /\ (Done /\ op = "connectOnSoftware") =>
               ret = RetStr(UnsupportedSoftware) /\ log = <<>>

----------------------------------------------------------------------------
(* The facade and the names the adapters define *)

FacadeOperations == {"getModelUnits", "createPoint", "createLine", "createSurface"}

\* C23: loading the module for LUSAS, which registers attributes of the
\* adapter object as tools, does not raise, and a facade operation called
\* while an adapter object is held returns a string.
C23_FacadeReachesTheAdapter ==
    /\ (Loaded /\ feaName = "LUSAS") => ret.kind # "raise"
    /\ (Done /\ op \in FacadeOperations /\ feaSoftware = "object") =>
           ret.kind = "str"

----------------------------------------------------------------------------
(* The prefix of the strings that report a failure *)

\* GetPresentUnits answered with a number outside the list of preset units.
UnknownUnits ==
    /\ Replied("GetPresentUnits") # {}
    /\ Reply("GetPresentUnits")[1] \notin 1..16

\* A backend call answered with a nonzero return code.
NonzeroCode == \E k \in DOMAIN log : log[k].layer = "code" /\ ~log[k].ok

\* C24: the string get_units or save of the ETABS adapter returns begins
\* with "Error" exactly when the outcome is a failure: the connection check
\* answered False, the backend answered with a nonzero code, or the units
\* are unknown.
C24_FailureStringsBeginWithError ==
    (Done /\ feaName = "ETABS" /\ op \in {"get_units", "save"}
          /\ ret.kind = "str") =>
        (ret.msg.pre = "Error" <=> (CheckedFalse \/ NonzeroCode \/ UnknownUnits))

----------------------------------------------------------------------------
(* Requests with malformed coordinate lists *)

\* The coordinate lists of request i differ in length, or their length does
\* not meet what the type of the request needs.
Malformed(i) ==
    LET o == objects[i]
        n == Len(o.xs)
        t == lower(o.type)
    IN  \/ Len(o.ys) # n
        \/ Len(o.zs) # n
        \/ t = S_point /\ n < 1
        \/ t \in {S_line, S_straight_line} /\ n < 2
        \/ t = S_arc /\ n # 3
        \/ t \in {S_spline, S_surface} /\ n < 2

\* The backend calls that create an entity
CreationCalls ==
    {"createPoint", "createLine", "createSurface", "AddCartesian", "AddByCoord"}

\* The creation calls made for request i
CreationsFor(i) ==
    {k \in DOMAIN log : /\ log[k].layer = "backend"
                        /\ log[k].item = i
                        /\ log[k].call \in CreationCalls}

\* C25: when create_objects_by_coordinates has ended, the slot of every
\* request with malformed coordinate lists holds an error string, and no
\* creation call was made for that request.
C25_MalformedRequestsRejected ==
    (Done /\ Batch) =>
        \A i \in DOMAIN results :
            Malformed(i) => results[i].pre = "Error" /\ CreationsFor(i) = {}

----------------------------------------------------------------------------
(* The dispatch of a request by its type *)

\* The shape a type name stands for: "line" and "straight line" both name
\* the line.
Shape(t) == IF t \in {S_line, S_straight_line} THEN S_line ELSE t

\* The shapes the adapter of the selected backend has a creation operation
\* from coordinates for
Creatable ==
    IF feaName = "LUSAS" THEN {S_point, S_line, S_arc, S_spline, S_surface}
    ELSE {S_point, S_line, S_surface}

\* The adapter operation that creates a shape from coordinates
CreationOf(shape) ==
    IF feaName = "LUSAS"
    THEN CASE shape = S_point -> "create_point"
           [] shape = S_line -> "create_line_by_coordinates"
           [] shape = S_arc -> "create_arc_by_coordinates"
           [] shape = S_spline -> "create_spline_by_coordinates"
           [] OTHER -> "create_surface_by_coordinates"
    ELSE CASE shape = S_point -> "create_joint"
           [] shape = S_line -> "create_frame"
           [] OTHER -> "create_area"

\* The coordinates of request o as the creation operation of its shape
\* takes them
InInputOrder(o, shape) ==
    CASE shape = S_point -> Triple(o, 0)
      [] shape = S_line -> Triple(o, 0) \o Triple(o, 1)
      [] shape = S_arc -> Triple(o, 0) \o Triple(o, 1) \o Triple(o, 2)
      [] OTHER -> IF feaName = "LUSAS" THEN Zipped(o.xs, o.ys, o.zs, Len(o.xs))
                  ELSE <<Len(o.xs)>> \o o.xs \o o.ys \o o.zs

\* The adapter operations request i was handed to
Dispatched(i) ==
    {k \in DOMAIN log : log[k].layer = "adapter" /\ log[k].item = i}

SameLetters(a, b) ==
    /\ Len(a) = Len(b)
    /\ \A k \in DOMAIN a :
           \/ a[k] = b[k]
           \/ \E j \in DOMAIN UpperChars :
                  {a[k], b[k]} = {UpperChars[j], LowerChars[j]}

----------------------------------------------------------------------------
(* The command batch when it could not be opened *)

\* C27: in the LUSAS create_objects_by_coordinates closeCommandBatch is
\* never called more often than beginCommandBatch has returned, and when
\* beginCommandBatch raised the operation ends with a string.
C27_CloseOnlyAfterOpen ==
    (Batch /\ feaName = "LUSAS") =>
        /\ Cardinality(Calls("closeCommandBatch"))
               <= Cardinality(Returned("beginCommandBatch"))
        /\ (Done /\ Calls("beginCommandBatch") # Returned("beginCommandBatch")) =>
               ret.kind = "str"

----------------------------------------------------------------------------
(* connectOnSoftware and the session of the adapter object *)

\* C28: connectOnSoftware answers "Already connected on ..." only when the
\* adapter object held a session handle at the start of the call; when no
\* handle was held, the call tries to attach.
C28_AlreadyConnectedNeedsSession ==
    (Done /\ op = "connectOnSoftware") =>
        /\ ret = RetStr(AlreadyConnected) => PreHandle # 0
        /\ PreHandle = 0 => Attaches # {}

====
